---- MODULE Spec2Model ----
(***************************************************************************)
(* A model of the HL-HDF node / node list / write-update engine.           *)
(*                                                                         *)
(*   hlhdf_node.c   : HL_Node, its constructors, value and dimension       *)
(*                    setters, number of points.                           *)
(*   hlhdf_write.c  : writeHL_NodeList, updateHL_NodeList and their        *)
(*                    helpers, over an abstract HDF5 engine (a file of     *)
(*                    objects and a table of open handles).                *)
(*   hlhdf_nodelist : addHL_Node / getHL_Node (only declared in the        *)
(*                    sources at hand).                                    *)
(*                                                                         *)
(* A path "/g/a" is the sequence <<"g","a">>.  A C pointer is NULL or      *)
(* Ptr(v).  A handle (hid_t) is -1 or a natural number naming an entry of  *)
(* the table of open handles.                                              *)
(***************************************************************************)
EXTENDS Integers, Sequences, FiniteSets, TLC

VARIABLES
  nodelist,   \* HL_NodeList.nodes[0..nNodes-1], a sequence of HL_Node records
  nextId,     \* number of HL_Node objects allocated so far (a node's identity)
  file,       \* the persisted HDF5 file: [exists, objs]
  open,       \* the engine's table of open handles
  last,       \* the public operation just performed and what it returned
  wr,         \* report of the last write/update call (what it did, node by node)
  alias,      \* the buffers two nodes hold at one address: [a, b, field]
  readlist,   \* the node list readHL_NodeList returned (empty before)
  out,        \* what the last constructor or accessor handed to its caller
  call        \* the write or update call in progress, statement by statement

vars == <<nodelist, nextId, file, open, last, wr, alias, readlist, out, call>>

----------------------------------------------------------------------------
(* Bounds of the model *)

MaxNodes == 3      \* longest node list built
MaxAlloc == 5      \* most HL_Node objects allocated in one behaviour
MaxExtent == 2     \* largest extent of one dimension handed to a setter
MaxSize == 2       \* largest element size (bytes) handed to a setter
MaxFails == 1      \* most engine calls failing on their own in one library call
MaxFetches == 2    \* most fetchMarkedNodes calls made in a row

----------------------------------------------------------------------------
(* C pointers *)

NULL == <<>>
Ptr(v) == <<v>>
Deref(p) == p[1]

RECURSIVE Product(_)
Product(s) == IF s = <<>> THEN 1 ELSE Head(s) * Product(Tail(s))

----------------------------------------------------------------------------
(* Formats and type handles *)

FormatTokens == {"int", "string", "compound", "array", "bogus"}

\* HL_getFormatSpecifier: format string -> HL_FormatSpecifier
HL_getFormatSpecifier(fmt) ==
  CASE fmt = "int"      -> "HLHDF_INT"
    [] fmt = "string"   -> "HLHDF_STRING"
    [] fmt = "compound" -> "HLHDF_COMPOUND"
    [] fmt = "array"    -> "HLHDF_ARRAY"
    [] OTHER            -> "HLHDF_UNDEFINED"

\* Type handles are abstracted to what they describe: 1 is the native int type,
\* 10 + n a fixed string type of n bytes, 20 a caller-made (compound) type.
CallerType == 20
TypeIds == {-1, CallerType}

\* HL_translateFormatStringToDatatype: a primitive format has a native type
HL_translateFormatStringToDatatype(fmt) == IF fmt = "int" THEN 1 ELSE -1

\* HLNode_createStringType: H5Tcopy(H5T_C_S1) with the size set to length
HLNode_createStringType(length) == 10 + length

\* H5Tcopy of a valid type handle describes the same type
H5Tcopy(typid) == typid

----------------------------------------------------------------------------
(* HL_Node *)

NodeTypes == {"GROUP_ID", "DATASET_ID", "ATTRIBUTE_ID", "TYPE_ID", "REFERENCE_ID"}
Marks == {"NMARK_CREATED", "NMARK_ORIGINAL", "NMARK_CHANGED", "NMARK_SELECTED"}

\* newHL_Node giving its node the mark of a node read from a file
newHL_Node_MarkOriginal(id, name) ==
  IF name = NULL THEN NULL
  ELSE Ptr([ id          |-> id,
             type        |-> "UNDEFINED_ID",
             format      |-> "HLHDF_UNDEFINED",
             name        |-> Deref(name),
             ndims       |-> 0,
             dims        |-> NULL,
             data        |-> NULL,
             rawdata     |-> NULL,
             typeId      |-> -1,
             dSize       |-> 0,
             rdSize      |-> 0,
             dataType    |-> "DTYPE_UNDEFINED_ID",
             hdfId       |-> -1,
             mark        |-> "NMARK_ORIGINAL",
             compoundDescription |-> NULL,
             compression |-> NULL ])

\* newHL_Node: name is NULL or Ptr(path); the result is NULL or Ptr(node)
newHL_Node(id, name) ==
  IF name = NULL THEN NULL
  ELSE Ptr([ id          |-> id,
             type        |-> "UNDEFINED_ID",
             format      |-> "HLHDF_UNDEFINED",
             name        |-> Deref(name),
             ndims       |-> 0,
             dims        |-> NULL,
             data        |-> NULL,
             rawdata     |-> NULL,
             typeId      |-> -1,
             dSize       |-> 0,
             rdSize      |-> 0,
             dataType    |-> "DTYPE_UNDEFINED_ID",
             hdfId       |-> -1,
             mark        |-> "NMARK_CREATED",
             compoundDescription |-> NULL,
             compression |-> NULL ])

setHL_NodeType(node, type) == [node EXCEPT !.type = type]

getHL_NodeType(node) == node.type

\* setHL_NodeMark forgetting the node's type
setHL_NodeMark_ResetsType(node, mark) ==
  [node EXCEPT !.mark = mark, !.type = "UNDEFINED_ID"]

setHL_NodeMark(node, mark) == [node EXCEPT !.mark = mark]

\* newHL_NodeWithType, behind newHL_Group, newHL_Dataset, newHL_Attribute,
\* newHL_Datatype and newHL_Reference
newHL_NodeWithType(id, name, type) ==
  LET retv == newHL_Node(id, name)
  IN IF retv = NULL THEN NULL ELSE Ptr(setHL_NodeType(Deref(retv), type))

\* setHL_NodeDimensions: dims is NULL or Ptr(sequence of at least ndims extents)
setHL_NodeDimensions(node, ndims, dims) ==
  LET tmpdims == IF ndims > 0 /\ dims # NULL
                 THEN Ptr(SubSeq(Deref(dims), 1, ndims))
                 ELSE NULL
  IN [ node   |-> [node EXCEPT !.dims = tmpdims, !.ndims = ndims],
       status |-> 1 ]

\* getHL_NodeNumberOfPoints taking a node without a dimensions array for a scalar
getHL_NodeNumberOfPoints_ScalarWithoutDims(node) ==
  IF node.ndims = 0 \/ node.dims = NULL THEN 1
  ELSE Product(Deref(node.dims))

\* getHL_NodeNumberOfPoints
getHL_NodeNumberOfPoints(node) ==
  IF node.ndims = 0 THEN 1
  ELSE IF node.ndims > 0 /\ node.dims # NULL THEN Product(Deref(node.dims))
  ELSE 0

\* setHL_NodeScalarValue marking every node it touches as changed
setHL_NodeScalarValue_AlwaysChanged(node, sz, value, fmt, typid) ==
  LET format == HL_getFormatSpecifier(fmt)
  IN IF format \in {"HLHDF_UNDEFINED", "HLHDF_ARRAY"}
          \/ (format = "HLHDF_COMPOUND" /\ typid < 0)
       THEN [node |-> node, status |-> 0]
     ELSE [ node |-> [node EXCEPT !.data = Ptr(SubSeq(value, 1, sz)),
                                  !.format = format,
                                  !.dSize = sz,
                                  !.typeId = IF format = "HLHDF_STRING" /\ typid < 0
                                             THEN HLNode_createStringType(sz)
                                             ELSE IF typid < 0
                                             THEN HL_translateFormatStringToDatatype(fmt)
                                             ELSE H5Tcopy(typid),
                                  !.dataType = "HL_SIMPLE",
                                  !.mark = "NMARK_CHANGED"],
            status |-> 1 ]

\* setHL_NodeScalarValue: value is the caller's buffer (at least sz bytes)
setHL_NodeScalarValue(node, sz, value, fmt, typid) ==
  LET format == HL_getFormatSpecifier(fmt)
      data   == SubSeq(value, 1, sz)
      tmptypeid ==
        IF format = "HLHDF_STRING" /\ typid < 0 THEN HLNode_createStringType(sz)
        ELSE IF typid < 0 THEN HL_translateFormatStringToDatatype(fmt)
        ELSE H5Tcopy(typid)
  IN IF format = "HLHDF_UNDEFINED" \/ format = "HLHDF_ARRAY"
       THEN [node |-> node, status |-> 0]
     ELSE IF format = "HLHDF_STRING" /\ typid < 0 /\ tmptypeid < 0
       THEN [node |-> node, status |-> 0]
     ELSE IF format = "HLHDF_COMPOUND" /\ typid < 0
       THEN [node |-> node, status |-> 0]
     ELSE [ node |-> [node EXCEPT !.data = Ptr(data),
                                  !.format = format,
                                  !.dSize = sz,
                                  !.typeId = tmptypeid,
                                  !.dataType = "HL_SIMPLE",
                                  !.mark = IF @ # "NMARK_CREATED"
                                           THEN "NMARK_CHANGED" ELSE @],
            status |-> 1 ]

\* setHL_NodeArrayValue setting the dimensions before it looks at the format
setHL_NodeArrayValue_DimsFirst(node, sz, ndims, dims, value, fmt, typid) ==
  LET format == HL_getFormatSpecifier(fmt)
      dimmed == setHL_NodeDimensions(node, ndims, dims)
  IN IF format \in {"HLHDF_UNDEFINED", "HLHDF_ARRAY"}
          \/ (format = "HLHDF_COMPOUND" /\ typid < 0)
       THEN [node |-> dimmed.node, status |-> 0]
     ELSE [ node |-> [dimmed.node EXCEPT
                        !.data = Ptr(SubSeq(value, 1,
                                            Product(SubSeq(Deref(dims), 1, ndims)) * sz)),
                        !.format = format,
                        !.dSize = sz,
                        !.typeId = IF format = "HLHDF_STRING" /\ typid < 0
                                   THEN HLNode_createStringType(sz)
                                   ELSE IF typid < 0
                                   THEN HL_translateFormatStringToDatatype(fmt)
                                   ELSE H5Tcopy(typid),
                        !.dataType = "HL_ARRAY",
                        !.mark = IF @ # "NMARK_CREATED" THEN "NMARK_CHANGED" ELSE @],
            status |-> 1 ]

\* setHL_NodeArrayValue: requires ndims > 0 and dims # NULL (HL_ASSERT)
setHL_NodeArrayValue(node, sz, ndims, dims, value, fmt, typid) ==
  LET format == HL_getFormatSpecifier(fmt)
      npts   == Product(SubSeq(Deref(dims), 1, ndims))
      data   == SubSeq(value, 1, npts * sz)
      tmptypeid ==
        IF format = "HLHDF_STRING" /\ typid < 0 THEN HLNode_createStringType(sz)
        ELSE IF typid < 0 THEN HL_translateFormatStringToDatatype(fmt)
        ELSE H5Tcopy(typid)
      dimmed == setHL_NodeDimensions(node, ndims, dims)
  IN IF format = "HLHDF_UNDEFINED" \/ format = "HLHDF_ARRAY"
       THEN [node |-> node, status |-> 0]
     ELSE IF format = "HLHDF_STRING" /\ typid < 0 /\ tmptypeid < 0
       THEN [node |-> node, status |-> 0]
     ELSE IF format = "HLHDF_COMPOUND" /\ typid < 0
       THEN [node |-> node, status |-> 0]
     ELSE IF dimmed.status = 0
       THEN [node |-> node, status |-> 0]
     ELSE [ node |-> [dimmed.node EXCEPT !.data = Ptr(data),
                                         !.format = format,
                                         !.dSize = sz,
                                         !.typeId = tmptypeid,
                                         !.dataType = "HL_ARRAY",
                                         !.mark = IF @ # "NMARK_CREATED"
                                                  THEN "NMARK_CHANGED" ELSE @],
            status |-> 1 ]

\* HL_getFormatSpecifierFromType: the format of an engine type
HL_getFormatSpecifierFromType(type) ==
  IF type = 1 THEN "HLHDF_INT"
  ELSE IF type > 10 /\ type < CallerType THEN "HLHDF_STRING"
  ELSE IF type = CallerType THEN "HLHDF_COMPOUND"
  ELSE "HLHDF_UNDEFINED"

\* HLNodePrivate_setData: the node takes over the buffer
HLNodePrivate_setData(node, datasize, data) ==
  [node EXCEPT !.data = data, !.dSize = datasize]

\* HLNodePrivate_setTypeIdAndDeriveFormat
HLNodePrivate_setTypeIdAndDeriveFormat(node, type) ==
  IF H5Tcopy(type) < 0 \/ HL_getFormatSpecifierFromType(type) = "HLHDF_UNDEFINED"
    THEN [node |-> node, status |-> 0]
  ELSE [ node |-> [node EXCEPT !.typeId = H5Tcopy(type),
                               !.format = HL_getFormatSpecifierFromType(type)],
         status |-> 1 ]

setHL_NodeDataType(node, datatype) == [node EXCEPT !.dataType = datatype]

\* getHL_NodeDimensions handing out the node's own array
getHL_NodeDimensions_Alias(node) ==
  IF node.ndims > 0 /\ node.dims # NULL
  THEN [ndims |-> node.ndims, dims |-> node.dims, at |-> "node"]
  ELSE [ndims |-> 0, dims |-> NULL, at |-> "none"]

\* getHL_NodeDimensions: what *ndims and *dims are left as, and where the
\* array lies: "fresh" for one allocated by the call, "node" for the node's
\* own.  A failing malloc is left out.
getHL_NodeDimensions(node) ==
  IF node.ndims > 0 /\ node.dims # NULL
  THEN [ ndims |-> node.ndims,
         dims  |-> Ptr([k \in 1..node.ndims |-> Deref(node.dims)[k]]),
         at    |-> "fresh" ]
  ELSE [ndims |-> 0, dims |-> NULL, at |-> "none"]

\* getHL_NodeDimension without the test for a negative index
getHL_NodeDimension_NoLowerBound(node, index, junk) ==
  IF index >= node.ndims \/ node.dims = NULL
  THEN [value |-> 0, read |-> NULL]
  ELSE [ value |-> IF index + 1 \in 1..Len(Deref(node.dims))
                   THEN Deref(node.dims)[index + 1] ELSE junk,
         read  |-> Ptr(index) ]

\* getHL_NodeDimension: the value returned, and the index of dims that was
\* read (NULL when none was).  C counts from 0; an index outside the array
\* reads whatever lies there (junk).
getHL_NodeDimension(node, index, junk) ==
  IF index < 0 \/ index >= node.ndims \/ node.dims = NULL
  THEN [value |-> 0, read |-> NULL]
  ELSE [ value |-> IF index + 1 \in 1..Len(Deref(node.dims))
                   THEN Deref(node.dims)[index + 1] ELSE junk,
         read  |-> Ptr(index) ]

\* a compound type description: where it lies, and the object identity of
\* the committed type it describes (its fields are left out)
HL_CompoundTypeDescription(addr, objno0, objno1) ==
  [addr |-> addr, objno |-> <<objno0, objno1>>]

\* copyHL_CompoundTypeDescription: NULL, or the same description elsewhere
copyHL_CompoundTypeDescription(descr, addr) ==
  IF descr = NULL THEN NULL ELSE Ptr([Deref(descr) EXCEPT !.addr = addr])

\* setHL_NodeCompoundDescription: the node takes over the description
setHL_NodeCompoundDescription(node, descr) ==
  [node EXCEPT !.compoundDescription = descr]

getHL_NodeCompoundDescription(node) == node.compoundDescription

\* HLNodePrivate_setRawdata: the node takes over the buffer
HLNodePrivate_setRawdata(node, datasize, data) ==
  [node EXCEPT !.rawdata = data, !.rdSize = datasize]

\* HLNodePrivate_setHdfID binding a REFERENCE node as well
HLNodePrivate_setHdfID_BindsReference(node, hdfid) ==
  IF node.type \in {"ATTRIBUTE_ID", "DATASET_ID", "GROUP_ID", "TYPE_ID", "REFERENCE_ID"}
  THEN [node EXCEPT !.hdfId = hdfid] ELSE node

\* HLNodePrivate_setHdfID: a REFERENCE node, or one of no type, keeps its handle
HLNodePrivate_setHdfID(node, hdfid) ==
  IF node.type \in {"ATTRIBUTE_ID", "DATASET_ID", "GROUP_ID", "TYPE_ID"}
  THEN [node EXCEPT !.hdfId = hdfid] ELSE node

\* memcpy(dst, src, n) into a fresh buffer: the bytes read past the end of src
\* are whatever lies there; malloc(0) gives NULL or a buffer of no bytes
Copied(src, n, junk, empty) ==
  IF n = 0 THEN empty
  ELSE Ptr([k \in 1..n |-> IF src # NULL /\ k <= Len(Deref(src))
                           THEN Deref(src)[k] ELSE junk])

\* the typed constructors
newHL_Group(id, name) == newHL_NodeWithType(id, name, "GROUP_ID")
newHL_Attribute(id, name) == newHL_NodeWithType(id, name, "ATTRIBUTE_ID")
newHL_Dataset(id, name) == newHL_NodeWithType(id, name, "DATASET_ID")
newHL_Datatype(id, name) == newHL_NodeWithType(id, name, "TYPE_ID")
newHL_Reference(id, name) == newHL_NodeWithType(id, name, "REFERENCE_ID")

\* copyHL_Node handing the original's buffers to the copy
copyHL_Node_Shallow(id, node, junk, empty) ==
  IF node = NULL THEN [node |-> NULL, shared |-> {}]
  ELSE [ node |-> Ptr([Deref(node) EXCEPT !.id = id, !.hdfId = -1,
                                          !.compression = NULL]),
         shared |-> {"data", "rawdata", "dims"} ]

\* copyHL_Node: node is NULL or Ptr(node); shared names the buffers the copy
\* holds at the original's address (each is allocated anew).
copyHL_Node(id, node, junk, empty) ==
  LET orig == Deref(node)
      sized(retv) == [retv EXCEPT !.type = orig.type, !.dSize = orig.dSize,
                                  !.rdSize = orig.rdSize]
      filled(retv, npts) ==
        [retv EXCEPT
           !.data     = Copied(orig.data, npts * retv.dSize, junk, empty),
           !.rawdata  = IF orig.rawdata # NULL
                        THEN Copied(orig.rawdata, npts * retv.rdSize, junk, empty)
                        ELSE NULL,
           !.rdSize   = IF orig.rawdata # NULL THEN @ ELSE 0,
           !.format   = orig.format,
           !.typeId   = IF orig.typeId >= 0 THEN H5Tcopy(orig.typeId) ELSE @,
           !.dataType = orig.dataType,
           !.hdfId    = -1,
           !.mark     = orig.mark,
           !.compoundDescription =
              copyHL_CompoundTypeDescription(orig.compoundDescription, id)]
      again(retv) ==
        IF setHL_NodeDimensions(retv, orig.ndims, orig.dims).status = 0
          THEN Ptr(retv)
        ELSE Ptr(filled(setHL_NodeDimensions(retv, orig.ndims, orig.dims).node,
                        getHL_NodeNumberOfPoints(
                          setHL_NodeDimensions(retv, orig.ndims, orig.dims).node)))
      dimmed(retv) ==
        IF setHL_NodeDimensions(retv, orig.ndims, orig.dims).status = 0
          THEN Ptr(retv)
        ELSE again(sized(setHL_NodeDimensions(retv, orig.ndims, orig.dims).node))
      made(retv) == IF retv = NULL THEN NULL ELSE dimmed(Deref(retv))
  IN IF node = NULL THEN [node |-> NULL, shared |-> {}]
     ELSE [node |-> made(newHL_Node(id, Ptr(orig.name))), shared |-> {}]

----------------------------------------------------------------------------
(* HL_NodeList: the sequence nodes[0..nNodes-1] *)

\* equalsHL_NodeName
equalsHL_NodeName(node, name) == IF node.name = name THEN 1 ELSE 0

\* getHL_Node: the first node of the list with that name, or NULL
getHL_Node(nodes, nodeName) ==
  IF \E i \in 1..Len(nodes) : equalsHL_NodeName(nodes[i], nodeName) = 1
  THEN Ptr(nodes[CHOOSE i \in 1..Len(nodes) :
                   /\ equalsHL_NodeName(nodes[i], nodeName) = 1
                   /\ \A j \in 1..(i - 1) : equalsHL_NodeName(nodes[j], nodeName) = 0])
  ELSE NULL

\* addHL_Node appending whatever it is given
addHL_Node_NoDuplicateCheck(nodes, node) ==
  [nodes |-> Append(nodes, node), status |-> 1]

\* addHL_Node: appends the node unless a node of that name is in the list
addHL_Node(nodes, node) ==
  IF getHL_Node(nodes, node.name) # NULL
  THEN [nodes |-> nodes, status |-> 0]
  ELSE [nodes |-> Append(nodes, node), status |-> 1]

\* markHL_NodeListNodes marking the first node only
markHL_NodeListNodes_FirstOnly(nodes, mark) ==
  [ k \in 1..Len(nodes) |-> IF k = 1 THEN setHL_NodeMark(nodes[k], mark) ELSE nodes[k] ]

\* markHL_NodeListNodes
markHL_NodeListNodes(nodes, mark) ==
  [ k \in 1..Len(nodes) |-> setHL_NodeMark(nodes[k], mark) ]

\* findHL_CompoundTypeDescription handing out a copy of the description
findHL_CompoundTypeDescription_Copy(nodes, objno0, objno1) ==
  LET hit(i) ==
        /\ getHL_NodeType(nodes[i]) = "TYPE_ID"
        /\ getHL_NodeCompoundDescription(nodes[i]) # NULL
        /\ Deref(getHL_NodeCompoundDescription(nodes[i])).objno = <<objno0, objno1>>
  IN IF \E i \in 1..Len(nodes) : hit(i)
     THEN copyHL_CompoundTypeDescription(
            getHL_NodeCompoundDescription(
              nodes[CHOOSE i \in 1..Len(nodes) :
                      hit(i) /\ \A j \in 1..(i - 1) : ~hit(j)]), 0)
     ELSE NULL

\* findHL_CompoundTypeDescription: the description of the first TYPE node
\* whose description carries the object identity asked for, or NULL
findHL_CompoundTypeDescription(nodes, objno0, objno1) ==
  LET hit(i) ==
        /\ getHL_NodeType(nodes[i]) = "TYPE_ID"
        /\ getHL_NodeCompoundDescription(nodes[i]) # NULL
        /\ Deref(getHL_NodeCompoundDescription(nodes[i])).objno = <<objno0, objno1>>
  IN IF \E i \in 1..Len(nodes) : hit(i)
     THEN getHL_NodeCompoundDescription(
            nodes[CHOOSE i \in 1..Len(nodes) :
                    hit(i) /\ \A j \in 1..(i - 1) : ~hit(j)])
     ELSE NULL

----------------------------------------------------------------------------
(* The HDF5 engine, as the code uses it.                                   *)
(*                                                                         *)
(* An engine state es is [open, file, n, fails]: the table of open         *)
(* handles, the file, the number of fallible engine calls made so far in   *)
(* the current library call, and the set of call numbers the engine fails  *)
(* for reasons of its own (I/O, memory).  A handle is                      *)
(* [id, kind, path]; path is the object of the file the handle is on (<<>> *)
(* for the root group, the file itself, and handles on no object of the    *)
(* file).  A file object is [path, kind, written, filter,                 *)

CT_NONE == 0
CT_ZLIB == 1
CT_SZLIB == 2

FreeId(op) ==
  CHOOSE i \in 0..Cardinality(op) :
    /\ \A h \in op : h.id # i
    /\ \A j \in 0..(i - 1) : \E h \in op : h.id = j

EngineFails(es) == (es.n + 1) \in es.fails
Ticked(es) == [es EXCEPT !.n = @ + 1]

IsOpen(es, id, kinds) == \E h \in es.open : h.id = id /\ h.kind \in kinds
Handle(es, id) == CHOOSE h \in es.open : h.id = id

ExistsObj(f, path) == path = <<>> \/ \E o \in f.objs : o.path = path
IsKind(f, path, kind) ==
  (path = <<>> /\ kind = "group") \/ \E o \in f.objs : o.path = path /\ o.kind = kind

\* a call returning a new handle, or -1
Acquire(es, kind, path, ok) ==
  LET opened(i) ==
        [ es |-> [Ticked(es) EXCEPT !.open = @ \cup
                    {[id |-> i, kind |-> kind, path |-> path, dims |-> <<>>]}],
          id |-> i ]
  IN IF ok /\ ~EngineFails(es) THEN opened(FreeId(es.open))
     ELSE [es |-> Ticked(es), id |-> -1]

\* a call returning a status: 0, or -1
Status(es, ok) ==
  [es |-> Ticked(es), status |-> IF ok /\ ~EngineFails(es) THEN 0 ELSE -1]

\* H5Xclose(id): closes the handle if it is an open handle of that kind
Release(es, id, kinds) ==
  [es EXCEPT !.open = { h \in @ : ~(h.id = id /\ h.kind \in kinds) }]

\* the close macros: if (x >= 0) H5Xclose(x)
HL_H5S_CLOSE(es, id) == IF id >= 0 THEN Release(es, id, {"space"}) ELSE es
HL_H5P_CLOSE(es, id) == IF id >= 0 THEN Release(es, id, {"plist"}) ELSE es
HL_H5A_CLOSE(es, id) == IF id >= 0 THEN Release(es, id, {"attr"}) ELSE es
HL_H5T_CLOSE(es, id) == IF id >= 0 THEN Release(es, id, {"type"}) ELSE es
HL_H5G_CLOSE(es, id) == IF id >= 0 THEN Release(es, id, {"group"}) ELSE es
HL_H5D_CLOSE(es, id) == IF id >= 0 THEN Release(es, id, {"dataset"}) ELSE es
HL_H5F_CLOSE(es, id) == IF id >= 0 THEN Release(es, id, {"file"}) ELSE es
HL_H5O_CLOSE(es, id) ==
  IF id >= 0 THEN Release(es, id, {"group", "dataset", "type"}) ELSE es

H5Screate(es) == Acquire(es, "space", <<>>, TRUE)

\* a new dataspace handle remembers its extents
Shaped(r, extents) ==
  IF r.id < 0 THEN r
  ELSE [r EXCEPT !.es.open = { IF h.id = r.id THEN [h EXCEPT !.dims = extents] ELSE h :
                                 h \in @ }]

H5Screate_simple(es, ndims, dims) ==
  Shaped(Acquire(es, "space", <<>>, ndims = 0 \/ (ndims > 0 /\ dims # NULL)),
         IF ndims > 0 /\ dims # NULL THEN SubSeq(Deref(dims), 1, ndims) ELSE <<>>)

H5Tcopy_STD_REF_OBJ(es) == Acquire(es, "type", <<>>, TRUE)

H5Pcreate(es) == Acquire(es, "plist", <<>>, TRUE)

H5Pset_chunk(es, props, ndims, dims) ==
  Status(es, IsOpen(es, props, {"plist"}) /\ ndims > 0 /\ dims # NULL)

H5Pset_deflate(es, props, level) ==
  Status(es, IsOpen(es, props, {"plist"}) /\ level >= 0 /\ level <= 9)

H5Pset_szip(es, props) == Status(es, IsOpen(es, props, {"plist"}))

\* creating an object named name under the open object loc_id
\* an attribute or dataset is created with a type and the extents of the
\* dataspace space_id (-1 for an object that takes none)
CreateUnder(es, loc_id, lockinds, name, kind, hkind, written, filter, type_id, space_id) ==
  LET added(r, path) ==
        IF r.id < 0 THEN r
        ELSE [ es |-> [r.es EXCEPT !.file.objs = @ \cup
                         {[path |-> path, kind |-> kind, written |-> written,
                           filter |-> filter, type |-> type_id,
                           dims |-> IF space_id < 0 THEN <<>>
                                    ELSE Handle(es, space_id).dims,
                           data |-> NULL]}],
               id |-> r.id ]
      under(path) ==
        added(Acquire(es, hkind, path, ~ExistsObj(es.file, path)), path)
  IN IF ~IsOpen(es, loc_id, lockinds)
          \/ (space_id >= 0 /\ ~IsOpen(es, space_id, {"space"}))
       THEN [es |-> Ticked(es), id |-> -1]
     ELSE under(Handle(es, loc_id).path \o <<name>>)

\* H5Acreate(loc_id, name, type_id, space_id); a reference attribute has the
\* engine's reference type (-1 here)
H5Acreate(es, loc_id, name, kind, type_id, space_id) ==
  CreateUnder(es, loc_id, {"group", "dataset"}, name, kind, "attr", FALSE, CT_NONE,
              IF kind = "reference" THEN -1 ELSE type_id, space_id)

H5Gcreate(es, loc_id, name) ==
  CreateUnder(es, loc_id, {"group", "file"}, name, "group", "group", TRUE, CT_NONE,
              -1, -1)

H5Dcreate(es, loc_id, name, type_id, space_id, filter) ==
  CreateUnder(es, loc_id, {"group", "file"}, name, "dataset", "dataset", FALSE, filter,
              type_id, space_id)

\* H5Awrite / H5Dwrite: the object behind the handle receives the bytes of buf
WriteThrough(es, id, kinds, buf) ==
  LET through(r) ==
        IF r.status < 0 THEN r
        ELSE [ es |-> [r.es EXCEPT !.file.objs =
                         { IF o.path = Handle(es, id).path
                           THEN [o EXCEPT !.written = TRUE, !.data = buf] ELSE o :
                             o \in @ }],
               status |-> 0 ]
  IN through(Status(es, IsOpen(es, id, kinds)))

H5Awrite(es, attr_id, buf) == WriteThrough(es, attr_id, {"attr"}, buf)

H5Dwrite(es, dataset, buf) == WriteThrough(es, dataset, {"dataset"}, buf)

\* H5Rcreate: a reference to the object of that name in the file
H5Rcreate(es, file_id, targetname) ==
  Status(es, IsOpen(es, file_id, {"file"}) /\ targetname # <<>>
             /\ ExistsObj(es.file, targetname))

\* H5Gopen / H5Dopen of an object of the file by its path
OpenByPath(es, file_id, path, kind) ==
  Acquire(es, kind, path,
          /\ IsOpen(es, file_id, {"file", "group"})
          /\ IsKind(es.file, Handle(es, file_id).path \o path, kind))

H5Gopen(es, file_id, path) == OpenByPath(es, file_id, path, "group")

H5Dopen(es, file_id, path) == OpenByPath(es, file_id, path, "dataset")

\* H5Tcommit(loc_id, name, type_id): the open type becomes a named type of the
\* file; a type that is already named cannot be committed again
H5Tcommit(es, loc_id, name, type_id) ==
  LET ok == /\ IsOpen(es, loc_id, {"file", "group"})
            /\ IsOpen(es, type_id, {"type"})
            /\ Handle(es, type_id).path = <<>>
            /\ name # <<>>
            /\ IsKind(es.file, SubSeq(name, 1, Len(name) - 1), "group")
            /\ ~ExistsObj(es.file, name)
      named(r) ==
        IF r.status < 0 THEN r
        ELSE [ es |-> [r.es EXCEPT
                         !.open = { IF h.id = type_id THEN [h EXCEPT !.path = name]
                                    ELSE h : h \in @ },
                         !.file.objs = @ \cup {[path |-> name, kind |-> "type",
                                                written |-> TRUE, filter |-> CT_NONE,
                                                type |-> -1, dims |-> <<>>,
                                                data |-> NULL]}],
               status |-> 0 ]
  IN named(Status(es, ok))

\* H5Tcommitted(type_id): 1 for a named type, 0 for a transient one, -1 when
\* the query fails
H5Tcommitted(es, type_id) ==
  [ es |-> Ticked(es),
    status |-> IF EngineFails(es) \/ ~IsOpen(es, type_id, {"type"}) THEN -1
               ELSE IF Handle(es, type_id).path # <<>> THEN 1 ELSE 0 ]

\* the path of an object of the file the list was written to before its
\* file name was changed begins with ".."
Elsewhere(path) == path # <<>> /\ path[1] = ".."

\* a handle on the file or on an object of it keeps the file open
OnFile(h) ==
  /\ h.kind \in {"file", "group", "dataset", "attr"} \/ (h.kind = "type" /\ h.path # <<>>)
  /\ ~Elsewhere(h.path)

\* createHlHdfFile: a new, empty file in place of the old one; the engine
\* refuses to truncate a file that is open
createHlHdfFile(es) ==
  LET fresh(r) ==
        IF r.id < 0 THEN r
        ELSE [ es |-> [r.es EXCEPT !.file.exists = TRUE,
                                   !.file.objs = { o \in @ : Elsewhere(o.path) }],
               id |-> r.id ]
  IN fresh(Acquire(es, "file", <<>>, \A h \in es.open : ~OnFile(h)))

\* openHlHdfFile(filename, "rw")
openHlHdfFile(es) == Acquire(es, "file", <<>>, es.file.exists)

----------------------------------------------------------------------------
(* hlhdf_write.c: the helpers.  Each returns the engine state it leaves    *)
(* behind together with its C return value.  A helper is written as the    *)
(* chain of its engine calls: each stage receives the results of the calls *)
(* made so far and either leaves through the cleanup code or makes the     *)
(* next call.                                                              *)

\* the string in a reference node's data, read as a path: the one-byte buffer
\* <<0>> spells "/g", every other buffer a path that names no object
StringAsPath(data) ==
  IF data # NULL /\ Deref(data) = <<0>> THEN <<"g">> ELSE <<"nowhere">>

\* translateCharToDatatype: the native type of a primitive format
translateCharToDatatype(format) == IF format = "HLHDF_INT" THEN 1 ELSE -1

\* extractParentChildName: splits the node's name at its last "/"
extractParentChildName(node) ==
  IF node.name = <<>> THEN [status |-> 0, parentName |-> <<>>, childName |-> ""]
  ELSE [ status     |-> 1,
         parentName |-> SubSeq(node.name, 1, Len(node.name) - 1),
         childName  |-> node.name[Len(node.name)] ]

commitType(es, loc_id, name, type_id) == H5Tcommit(es, loc_id, name, type_id)

createReference(es, loc_id, file_id, name, targetname) ==
  LET fail(e, aid, attr_id, attr_type, status) ==
        [ es |-> HL_H5T_CLOSE(HL_H5A_CLOSE(HL_H5S_CLOSE(e, aid), attr_id), attr_type),
          status |-> status ]
      written(a, t, c, w) ==
        fail(w.es, a.id, c.id, t.id, IF w.status < 0 THEN -1 ELSE 0)
      referred(a, t, c, r) ==
        IF r.status < 0 THEN fail(r.es, a.id, c.id, t.id, -1)
        ELSE written(a, t, c, H5Awrite(r.es, c.id, Ptr(targetname)))
      created(a, t, c) ==
        IF c.id < 0 THEN fail(c.es, a.id, c.id, t.id, -1)
        ELSE referred(a, t, c, H5Rcreate(c.es, file_id, targetname))
      typed(a, t) ==
        IF t.id < 0 THEN fail(t.es, a.id, -1, t.id, -1)
        ELSE created(a, t, H5Acreate(t.es, loc_id, name, "reference", t.id, a.id))
      spaced(a) ==
        IF a.id < 0 THEN fail(a.es, a.id, -1, -1, -1)
        ELSE typed(a, H5Tcopy_STD_REF_OBJ(a.es))
  IN spaced(H5Screate(es))

\* writeScalarDataAttribute keeping the attribute handle open
writeScalarDataAttribute_LeakAttr(es, loc_id, type_id, name, buf) ==
  LET fail(e, aid, status) == [es |-> HL_H5S_CLOSE(e, aid), status |-> status]
      written(a, w) == fail(w.es, a.id, IF w.status < 0 THEN -1 ELSE 0)
      created(a, c) ==
        IF c.id < 0 THEN fail(c.es, a.id, -1)
        ELSE written(a, H5Awrite(c.es, c.id, buf))
      spaced(a) ==
        IF a.id < 0 THEN fail(a.es, a.id, -1)
        ELSE created(a, H5Acreate(a.es, loc_id, name, "attribute", type_id, a.id))
  IN spaced(H5Screate(es))

writeScalarDataAttribute(es, loc_id, type_id, name, buf) ==
  LET fail(e, aid, attr_id, status) ==
        [es |-> HL_H5A_CLOSE(HL_H5S_CLOSE(e, aid), attr_id), status |-> status]
      written(a, c, w) == fail(w.es, a.id, c.id, IF w.status < 0 THEN -1 ELSE 0)
      created(a, c) ==
        IF c.id < 0 THEN fail(c.es, a.id, c.id, -1)
        ELSE written(a, c, H5Awrite(c.es, c.id, buf))
      spaced(a) ==
        IF a.id < 0 THEN fail(a.es, a.id, -1, -1)
        ELSE created(a, H5Acreate(a.es, loc_id, name, "attribute", type_id, a.id))
  IN spaced(H5Screate(es))

writeSimpleDataAttribute(es, loc_id, type_id, name, ndims, dims, buf) ==
  LET fail(e, dataspace, attr_id, status) ==
        [es |-> HL_H5A_CLOSE(HL_H5S_CLOSE(e, dataspace), attr_id), status |-> status]
      written(a, c, w) == fail(w.es, a.id, c.id, IF w.status < 0 THEN -1 ELSE 0)
      created(a, c) ==
        IF c.id < 0 THEN fail(c.es, a.id, c.id, -1)
        ELSE written(a, c, H5Awrite(c.es, c.id, buf))
      spaced(a) ==
        IF a.id < 0 THEN fail(a.es, a.id, -1, -1)
        ELSE created(a, H5Acreate(a.es, loc_id, name, "attribute", type_id, a.id))
  IN spaced(H5Screate_simple(es, ndims, dims))

\* createSimpleDataset: returns the dataset handle (or -1) and the compression
\* object as the call leaves it.  The test
\*   compress != NULL && (compress->type == CT_SZLIB ||
\*        (compress->type = CT_ZLIB && (compress->level > 0 || compress->level <= 9)))
\* assigns to compress->type.
createSimpleDataset(es, loc_id, type_id, name, ndims, dims, buf, compress) ==
  LET done(e, dataspace, props, dataset, comp) ==
        [ es |-> HL_H5P_CLOSE(HL_H5S_CLOSE(e, dataspace), props),
          dataset |-> dataset, compress |-> comp ]
      assigned(c) == IF CT_ZLIB # 0 /\ (c.level > 0 \/ c.level <= 9) THEN 1 ELSE 0
      comp == IF compress = NULL \/ Deref(compress).type = CT_SZLIB THEN compress
              ELSE Ptr([Deref(compress) EXCEPT !.type = assigned(Deref(compress))])
      filtered == /\ compress # NULL
                  /\ (Deref(compress).type = CT_SZLIB \/ assigned(Deref(compress)) # 0)
      filled(s, props, d, w) == done(w.es, s.id, props, d.id, comp)
      made(s, props, d) ==
        IF d.id < 0 THEN done(d.es, s.id, props, -1, comp)
        ELSE IF buf # NULL THEN filled(s, props, d, H5Dwrite(d.es, d.id, buf))
        ELSE done(d.es, s.id, props, d.id, comp)
      filterSet(s, p, f) ==
        IF f.status < 0 THEN done(f.es, s.id, p.id, -1, comp)
        ELSE made(s, p.id, H5Dcreate(f.es, loc_id, name, type_id, s.id,
                                    Deref(comp).type))
      chunked(s, p, ch) ==
        IF ch.status < 0 THEN done(ch.es, s.id, p.id, -1, comp)
        ELSE filterSet(s, p, IF Deref(comp).type = CT_ZLIB
                             THEN H5Pset_deflate(ch.es, p.id, Deref(comp).level)
                             ELSE H5Pset_szip(ch.es, p.id))
      propped(s, p) ==
        IF p.id < 0 THEN done(p.es, s.id, p.id, -1, comp)
        ELSE chunked(s, p, H5Pset_chunk(p.es, p.id, ndims, dims))
      spaced(s) ==
        IF s.id < 0 THEN done(s.es, s.id, -1, -1, compress)
        ELSE IF filtered THEN propped(s, H5Pcreate(s.es))
        ELSE made(s, -1, H5Dcreate(s.es, loc_id, name, type_id, s.id, CT_NONE))
  IN spaced(H5Screate_simple(es, ndims, dims))

\* every child written under the root group
ParentLoc_AlwaysRoot(rootGrp, parentNode, parentName) == rootGrp

\* the location a child is written under: the root group for an empty parent
\* name, else the handle held by the parent node
ParentLoc(rootGrp, parentNode, parentName) ==
  IF parentName = <<>> THEN rootGrp ELSE Deref(parentNode).hdfId

\* a type of integers taken for a node that has neither format nor type
DerivedTypeId_IntByDefault(childNode) ==
  IF childNode.format # "HLHDF_UNDEFINED" /\ childNode.typeId < 0
  THEN translateCharToDatatype(childNode.format)
  ELSE IF childNode.typeId < 0 THEN translateCharToDatatype("HLHDF_INT")
  ELSE childNode.typeId

\* childNode->typeId, derived from the format when the node has none
DerivedTypeId(childNode) ==
  IF childNode.format # "HLHDF_UNDEFINED" /\ childNode.typeId < 0
  THEN translateCharToDatatype(childNode.format)
  ELSE childNode.typeId

doWriteHdf5Attribute(es, rootGrp, parentNode, parentName, childNode, childName) ==
  LET tmpLocId == ParentLoc(rootGrp, parentNode, parentName)
      child == [childNode EXCEPT !.typeId = DerivedTypeId(childNode)]
      ended(w) == [es |-> w.es, node |-> child, ret |-> IF w.status < 0 THEN 0 ELSE 1]
  IN IF child.typeId < 0 THEN [es |-> es, node |-> child, ret |-> 0]
     ELSE IF child.ndims = 0
       THEN ended(writeScalarDataAttribute(es, tmpLocId, child.typeId, childName,
                                           child.data))
     ELSE ended(writeSimpleDataAttribute(es, tmpLocId, child.typeId, childName,
                                         child.ndims, child.dims, child.data))

\* doWriteHdf5Group marking the node it wrote
doWriteHdf5Group_MarksOriginal(es, rootGrp, parentNode, parentName, childNode, childName) ==
  LET ended(g) == [ es |-> g.es,
                    node |-> [childNode EXCEPT !.hdfId = g.id,
                                               !.mark = IF g.id < 0 THEN @
                                                        ELSE "NMARK_ORIGINAL"],
                    ret |-> IF g.id < 0 THEN 0 ELSE 1 ]
  IN ended(H5Gcreate(HL_H5G_CLOSE(es, childNode.hdfId),
                     ParentLoc(rootGrp, parentNode, parentName), childName))

\* doWriteHdf5Group without HL_H5G_CLOSE(childNode->hdfId)
doWriteHdf5Group_KeepOld(es, rootGrp, parentNode, parentName, childNode, childName) ==
  LET ended(g) == [ es |-> g.es, node |-> [childNode EXCEPT !.hdfId = g.id],
                    ret |-> IF g.id < 0 THEN 0 ELSE 1 ]
  IN ended(H5Gcreate(es, ParentLoc(rootGrp, parentNode, parentName), childName))

doWriteHdf5Group(es, rootGrp, parentNode, parentName, childNode, childName) ==
  LET ended(g) == [ es |-> g.es, node |-> [childNode EXCEPT !.hdfId = g.id],
                    ret |-> IF g.id < 0 THEN 0 ELSE 1 ]
  IN ended(H5Gcreate(HL_H5G_CLOSE(es, childNode.hdfId),
                     ParentLoc(rootGrp, parentNode, parentName), childName))

doWriteHdf5Dataset(es, rootGrp, parentNode, parentName, childNode, childName, compression) ==
  LET tmpLocId == ParentLoc(rootGrp, parentNode, parentName)
      child == [childNode EXCEPT !.typeId = DerivedTypeId(childNode)]
      ended(d) == [ es |-> d.es, node |-> [child EXCEPT !.hdfId = d.dataset],
                    ret |-> IF d.dataset < 0 THEN 0 ELSE 1, compress |-> d.compress ]
  IN IF child.typeId < 0
       THEN [es |-> es, node |-> child, ret |-> 0, compress |-> compression]
     ELSE ended(createSimpleDataset(HL_H5D_CLOSE(es, child.hdfId), tmpLocId,
                                    child.typeId, childName, child.ndims,
                                    child.dims, child.data, compression))

\* H5Tcommitted is consulted after the commit, for the error message only;
\* committed is what it answered (1 when it was not asked)
doWriteHdf5Datatype(es, loc_id, parentNode, parentName, childNode, childName) ==
  LET asked(t) == [es |-> t.es, node |-> childNode, ret |-> 1, committed |-> t.status]
      ended(c) ==
        IF c.status < 0
          THEN [es |-> c.es, node |-> childNode, ret |-> 0, committed |-> 1]
        ELSE asked(H5Tcommitted(c.es, childNode.hdfId))
  IN IF loc_id < 0 THEN [es |-> es, node |-> childNode, ret |-> 0, committed |-> 1]
     ELSE ended(commitType(es, loc_id, childNode.name, childNode.hdfId))

doWriteHdf5Reference(es, rootGrp, file_id, parentNode, parentName, childNode, childName) ==
  LET ended(r) == [es |-> r.es, node |-> childNode,
                   ret |-> IF r.status < 0 THEN 0 ELSE 1]
  IN ended(createReference(es, ParentLoc(rootGrp, parentNode, parentName), file_id,
                           childName, StringAsPath(childNode.data)))

----------------------------------------------------------------------------
(* hlhdf_write.c: writeHL_NodeList *)

\* the step writing a node whose parent is not in the list under the root
WriteStep_OrphansUnderRoot(i, st, file_id, gid) ==
  LET node   == st.nodes[i]
      x      == extractParentChildName(node)
      parentNode == getHL_Node(st.nodes, x.parentName)
      parentName == IF parentNode = NULL THEN <<>> ELSE x.parentName
      callLevel == st.compression # NULL
      dispatched == IF node.type \in NodeTypes THEN {i} ELSE {}
      \* the node as the step leaves it; a dataset step given the node's own
      \* compression object works on that object
      stepped(r) ==
        [st EXCEPT !.nodes[i] = IF node.type = "DATASET_ID" /\ ~callLevel
                                THEN [r.node EXCEPT !.compression = r.compress]
                                ELSE r.node,
                   !.es = r.es,
                   !.compression = IF node.type = "DATASET_ID" /\ callLevel
                                   THEN r.compress ELSE @,
                   !.dispatched = @ \cup dispatched,
                   !.done = IF r.ret = 0 THEN @ ELSE @ \cup dispatched,
                   !.notCommitted = IF node.type = "TYPE_ID" /\ r.committed <= 0
                                    THEN @ \cup {i} ELSE @,
                   !.failedAt = IF r.ret = 0 THEN i ELSE @]
  IN IF x.status = 0 THEN [st EXCEPT !.failedAt = i]
     ELSE stepped(
       CASE node.type = "ATTRIBUTE_ID" ->
              doWriteHdf5Attribute(st.es, gid, parentNode, parentName,
                                   node, x.childName)
         [] node.type = "GROUP_ID" ->
              doWriteHdf5Group(st.es, gid, parentNode, parentName,
                               node, x.childName)
         [] node.type = "DATASET_ID" ->
              doWriteHdf5Dataset(st.es, gid, parentNode, parentName,
                                 node, x.childName,
                                 IF callLevel THEN st.compression
                                 ELSE node.compression)
         [] node.type = "TYPE_ID" ->
              doWriteHdf5Datatype(st.es, file_id, parentNode, parentName,
                                  node, x.childName)
         [] node.type = "REFERENCE_ID" ->
              doWriteHdf5Reference(st.es, gid, file_id, parentNode,
                                   parentName, node, x.childName)
         [] OTHER -> [es |-> st.es, node |-> node, ret |-> 1])

\* One iteration of the loop of writeHL_NodeList, for the node at index i.
\* st holds the nodes, the engine state, the caller's compression object, and
\* what the call has done so far; a failing iteration sets failedAt.
\* the dataset step preferring the node's own compression object
WriteStep_NodeCompressionFirst(i, st, file_id, gid) ==
  LET node   == st.nodes[i]
      x      == extractParentChildName(node)
      parentNode == getHL_Node(st.nodes, x.parentName)
      callLevel == st.compression # NULL
      dispatched == IF node.type \in NodeTypes THEN {i} ELSE {}
      \* the node as the step leaves it; a dataset step given the node's own
      \* compression object works on that object
      stepped(r) ==
        [st EXCEPT !.nodes[i] = IF node.type = "DATASET_ID" /\ ~callLevel
                                THEN [r.node EXCEPT !.compression = r.compress]
                                ELSE r.node,
                   !.es = r.es,
                   !.compression = IF node.type = "DATASET_ID" /\ callLevel
                                   THEN r.compress ELSE @,
                   !.dispatched = @ \cup dispatched,
                   !.done = IF r.ret = 0 THEN @ ELSE @ \cup dispatched,
                   !.notCommitted = IF node.type = "TYPE_ID" /\ r.committed <= 0
                                    THEN @ \cup {i} ELSE @,
                   !.failedAt = IF r.ret = 0 THEN i ELSE @]
  IN IF x.status = 0 THEN [st EXCEPT !.failedAt = i]
     ELSE IF x.parentName # <<>> /\ parentNode = NULL
       THEN [st EXCEPT !.failedAt = i]
     ELSE stepped(
       CASE node.type = "ATTRIBUTE_ID" ->
              doWriteHdf5Attribute(st.es, gid, parentNode, x.parentName,
                                   node, x.childName)
         [] node.type = "GROUP_ID" ->
              doWriteHdf5Group(st.es, gid, parentNode, x.parentName,
                               node, x.childName)
         [] node.type = "DATASET_ID" ->
              doWriteHdf5Dataset(st.es, gid, parentNode, x.parentName,
                                 node, x.childName,
                                 IF node.compression # NULL THEN node.compression
                                 ELSE st.compression)
         [] node.type = "TYPE_ID" ->
              doWriteHdf5Datatype(st.es, file_id, parentNode, x.parentName,
                                  node, x.childName)
         [] node.type = "REFERENCE_ID" ->
              doWriteHdf5Reference(st.es, gid, file_id, parentNode,
                                   x.parentName, node, x.childName)
         [] OTHER -> [es |-> st.es, node |-> node, ret |-> 1])

WriteStep(i, st, file_id, gid) ==
  LET node   == st.nodes[i]
      x      == extractParentChildName(node)
      parentNode == getHL_Node(st.nodes, x.parentName)
      callLevel == st.compression # NULL
      dispatched == IF node.type \in NodeTypes THEN {i} ELSE {}
      \* the node as the step leaves it; a dataset step given the node's own
      \* compression object works on that object
      stepped(r) ==
        [st EXCEPT !.nodes[i] = IF node.type = "DATASET_ID" /\ ~callLevel
                                THEN [r.node EXCEPT !.compression = r.compress]
                                ELSE r.node,
                   !.es = r.es,
                   !.compression = IF node.type = "DATASET_ID" /\ callLevel
                                   THEN r.compress ELSE @,
                   !.dispatched = @ \cup dispatched,
                   !.done = IF r.ret = 0 THEN @ ELSE @ \cup dispatched,
                   !.notCommitted = IF node.type = "TYPE_ID" /\ r.committed <= 0
                                    THEN @ \cup {i} ELSE @,
                   !.failedAt = IF r.ret = 0 THEN i ELSE @]
  IN IF x.status = 0 THEN [st EXCEPT !.failedAt = i]
     ELSE IF x.parentName # <<>> /\ parentNode = NULL
       THEN [st EXCEPT !.failedAt = i]
     ELSE stepped(
       CASE node.type = "ATTRIBUTE_ID" ->
              doWriteHdf5Attribute(st.es, gid, parentNode, x.parentName,
                                   node, x.childName)
         [] node.type = "GROUP_ID" ->
              doWriteHdf5Group(st.es, gid, parentNode, x.parentName,
                               node, x.childName)
         [] node.type = "DATASET_ID" ->
              doWriteHdf5Dataset(st.es, gid, parentNode, x.parentName,
                                 node, x.childName,
                                 IF callLevel THEN st.compression
                                 ELSE node.compression)
         [] node.type = "TYPE_ID" ->
              doWriteHdf5Datatype(st.es, file_id, parentNode, x.parentName,
                                  node, x.childName)
         [] node.type = "REFERENCE_ID" ->
              doWriteHdf5Reference(st.es, gid, file_id, parentNode,
                                   x.parentName, node, x.childName)
         [] OTHER -> [es |-> st.es, node |-> node, ret |-> 1])

\* the loop going on to the next node after a failing one
RECURSIVE WriteLoop_NoStop(_, _, _, _)
WriteLoop_NoStop(i, st, file_id, gid) ==
  IF i > Len(st.nodes) THEN [st EXCEPT !.ret = IF st.failedAt # 0 THEN 0 ELSE 1]
  ELSE WriteLoop_NoStop(i + 1, WriteStep(i, st, file_id, gid), file_id, gid)

\* for (i = 0; i < nNodes; i++) ... goto fail
RECURSIVE WriteLoop(_, _, _, _)
WriteLoop(i, st, file_id, gid) ==
  IF st.failedAt # 0 THEN [st EXCEPT !.ret = 0]
  ELSE IF i > Len(st.nodes) THEN [st EXCEPT !.ret = 1]
  ELSE WriteLoop(i + 1, WriteStep(i, st, file_id, gid), file_id, gid)

writeHL_NodeList(nodes, es, compression) ==
  LET \* base: the file as the loop finds it
      st0 == [nodes |-> nodes, es |-> es, compression |-> compression,
              ret |-> 0, failedAt |-> 0, dispatched |-> {}, done |-> {},
              notCommitted |-> {}, base |-> es.file, given |-> compression]
      closed(l, file_id, gid) ==
        [l EXCEPT !.es = HL_H5F_CLOSE(HL_H5G_CLOSE(l.es, gid), file_id)]
      rooted(f, g) ==
        IF g.id < 0
          THEN [st0 EXCEPT !.es = HL_H5F_CLOSE(g.es, f.id), !.base = f.es.file]
        ELSE closed(WriteLoop(1, [st0 EXCEPT !.es = g.es, !.base = f.es.file],
                              f.id, g.id), f.id, g.id)
      filed(f) ==
        IF f.id < 0 THEN [st0 EXCEPT !.es = f.es]
        ELSE rooted(f, H5Gopen(f.es, f.id, <<>>))
  IN filed(createHlHdfFile(es))

----------------------------------------------------------------------------
(* hlhdf_write.c: the append helpers and updateHL_NodeList *)

\* doAppendHdf5Attribute opening the parent as a group only
doAppendHdf5Attribute_GroupOnly(es, file_id, parentNode, parentName, childNode, childName) ==
  LET child == [childNode EXCEPT !.typeId = DerivedTypeId(childNode)]
      closeLoc(e, loc_id, parentType) ==
        IF parentType = "GROUP_ID" THEN HL_H5G_CLOSE(e, loc_id)
        ELSE IF parentType = "DATASET_ID" THEN HL_H5D_CLOSE(e, loc_id)
        ELSE e
      ended(w, loc_id, parentType) ==
        [ es   |-> closeLoc(w.es, loc_id, parentType),
          node |-> IF w.status < 0 THEN child
                   ELSE [child EXCEPT !.mark = "NMARK_ORIGINAL"],
          ret  |-> IF w.status < 0 THEN 0 ELSE 1 ]
      located(e, loc_id, parentType) ==
        IF loc_id < 0 THEN [es |-> e, node |-> childNode, ret |-> 0]
        ELSE IF child.typeId < 0
          THEN [es |-> closeLoc(e, loc_id, parentType), node |-> child, ret |-> 0]
        ELSE IF child.ndims = 0
          THEN ended(writeScalarDataAttribute(e, loc_id, child.typeId, childName,
                                              child.data),
                     loc_id, parentType)
        ELSE ended(writeSimpleDataAttribute(e, loc_id, child.typeId, childName,
                                            child.ndims, child.dims, child.data),
                   loc_id, parentType)
      asGroup(g) ==
        IF g.id < 0 THEN located(g.es, g.id, "UNDEFINED_ID")
        ELSE located(g.es, g.id, "GROUP_ID")
      asRoot(g) ==
        located(g.es, g.id, IF g.id >= 0 THEN "GROUP_ID" ELSE "UNDEFINED_ID")
  IN IF parentName = <<>> THEN asRoot(H5Gopen(es, file_id, <<>>))
     ELSE asGroup(H5Gopen(es, file_id, parentName))

doAppendHdf5Attribute(es, file_id, parentNode, parentName, childNode, childName) ==
  LET child == [childNode EXCEPT !.typeId = DerivedTypeId(childNode)]
      closeLoc(e, loc_id, parentType) ==
        IF parentType = "GROUP_ID" THEN HL_H5G_CLOSE(e, loc_id)
        ELSE IF parentType = "DATASET_ID" THEN HL_H5D_CLOSE(e, loc_id)
        ELSE e
      ended(w, loc_id, parentType) ==
        [ es   |-> closeLoc(w.es, loc_id, parentType),
          node |-> IF w.status < 0 THEN child
                   ELSE [child EXCEPT !.mark = "NMARK_ORIGINAL"],
          ret  |-> IF w.status < 0 THEN 0 ELSE 1 ]
      located(e, loc_id, parentType) ==
        IF loc_id < 0 THEN [es |-> e, node |-> childNode, ret |-> 0]
        ELSE IF child.typeId < 0
          THEN [es |-> closeLoc(e, loc_id, parentType), node |-> child, ret |-> 0]
        ELSE IF child.ndims = 0
          THEN ended(writeScalarDataAttribute(e, loc_id, child.typeId, childName,
                                              child.data),
                     loc_id, parentType)
        ELSE ended(writeSimpleDataAttribute(e, loc_id, child.typeId, childName,
                                            child.ndims, child.dims, child.data),
                   loc_id, parentType)
      asDataset(d) ==
        located(d.es, d.id, IF d.id >= 0 THEN "DATASET_ID" ELSE "UNDEFINED_ID")
      asGroup(g) ==
        IF g.id < 0 THEN asDataset(H5Dopen(g.es, file_id, parentName))
        ELSE located(g.es, g.id, "GROUP_ID")
      asRoot(g) ==
        located(g.es, g.id, IF g.id >= 0 THEN "GROUP_ID" ELSE "UNDEFINED_ID")
  IN IF parentName = <<>> THEN asRoot(H5Gopen(es, file_id, <<>>))
     ELSE asGroup(H5Gopen(es, file_id, parentName))

\* doAppendHdf5Group leaving the new group's handle open
doAppendHdf5Group_KeepNew(es, file_id, parentNode, parentName, childNode, childName) ==
  LET made(g, n) ==
        [ es   |-> HL_H5G_CLOSE(n.es, g.id),
          node |-> IF n.id < 0 THEN childNode
                   ELSE [childNode EXCEPT !.mark = "NMARK_ORIGINAL"],
          ret  |-> IF n.id < 0 THEN 0 ELSE 1 ]
      located(g) ==
        IF g.id < 0 THEN [es |-> g.es, node |-> childNode, ret |-> 0]
        ELSE made(g, H5Gcreate(g.es, g.id, childName))
  IN located(H5Gopen(es, file_id, parentName))

doAppendHdf5Group(es, file_id, parentNode, parentName, childNode, childName) ==
  LET made(g, n) ==
        [ es   |-> HL_H5G_CLOSE(HL_H5G_CLOSE(n.es, g.id), n.id),
          node |-> IF n.id < 0 THEN childNode
                   ELSE [childNode EXCEPT !.mark = "NMARK_ORIGINAL"],
          ret  |-> IF n.id < 0 THEN 0 ELSE 1 ]
      located(g) ==
        IF g.id < 0 THEN [es |-> g.es, node |-> childNode, ret |-> 0]
        ELSE made(g, H5Gcreate(g.es, g.id, childName))
  IN located(H5Gopen(es, file_id, parentName))

doAppendHdf5Dataset(es, file_id, parentNode, parentName, childNode, childName, compression) ==
  LET child == [childNode EXCEPT !.typeId = DerivedTypeId(childNode)]
      made(g, d) ==
        [ es   |-> HL_H5D_CLOSE(HL_H5G_CLOSE(d.es, g.id), d.dataset),
          node |-> IF d.dataset < 0 THEN child
                   ELSE [child EXCEPT !.mark = "NMARK_ORIGINAL"],
          ret  |-> IF d.dataset < 0 THEN 0 ELSE 1,
          compress |-> d.compress ]
      located(g) ==
        IF g.id < 0
          THEN [es |-> g.es, node |-> childNode, ret |-> 0, compress |-> compression]
        ELSE IF child.typeId < 0
          THEN [ es |-> HL_H5G_CLOSE(g.es, g.id), node |-> child, ret |-> 0,
                 compress |-> compression ]
        ELSE made(g, createSimpleDataset(g.es, g.id, child.typeId, childName,
                                         child.ndims, child.dims, child.data,
                                         compression))
  IN located(H5Gopen(es, file_id, parentName))

\* the step of the update loop taking nodes of any mark
UpdateStep_AnyMark(i, st, file_id, gid) ==
  LET node   == st.nodes[i]
      x      == extractParentChildName(node)
      parentNode == getHL_Node(st.nodes, x.parentName)
      callLevel == st.compression # NULL
      dispatched == IF node.type \in NodeTypes \ {"REFERENCE_ID"} THEN {i} ELSE {}
      stepped(r) ==
        [st EXCEPT !.nodes[i] = IF node.type = "DATASET_ID" /\ ~callLevel
                                THEN [r.node EXCEPT !.compression = r.compress]
                                ELSE r.node,
                   !.es = r.es,
                   !.compression = IF node.type = "DATASET_ID" /\ callLevel
                                   THEN r.compress ELSE @,
                   !.dispatched = @ \cup dispatched,
                   !.done = IF r.ret = 0 THEN @ ELSE @ \cup dispatched,
                   !.notCommitted = IF node.type = "TYPE_ID" /\ r.committed <= 0
                                    THEN @ \cup {i} ELSE @,
                   !.failedAt = IF r.ret = 0 THEN i ELSE @]
  IN IF x.status = 0 THEN [st EXCEPT !.failedAt = i]
     ELSE IF x.parentName # <<>> /\ parentNode = NULL
       THEN [st EXCEPT !.failedAt = i]
     ELSE stepped(
       CASE node.type = "ATTRIBUTE_ID" ->
              doAppendHdf5Attribute(st.es, file_id, parentNode, x.parentName,
                                    node, x.childName)
         [] node.type = "GROUP_ID" ->
              doAppendHdf5Group(st.es, file_id, parentNode, x.parentName,
                                node, x.childName)
         [] node.type = "DATASET_ID" ->
              doAppendHdf5Dataset(st.es, gid, parentNode, x.parentName,
                                  node, x.childName,
                                  IF callLevel THEN st.compression
                                  ELSE node.compression)
         [] node.type = "TYPE_ID" ->
              doWriteHdf5Datatype(st.es, file_id, parentNode, x.parentName,
                                  node, x.childName)
         [] OTHER -> [es |-> st.es, node |-> node, ret |-> 1])

\* One iteration of the loop of updateHL_NodeList, for the node at index i.
\* The dataset case hands gid, not file_id, to doAppendHdf5Dataset.
\* the body of the update loop without the search for the parent node
UpdateStep_NoParentCheck(i, st, file_id, gid) ==
  LET node   == st.nodes[i]
      x      == extractParentChildName(node)
      parentNode == getHL_Node(st.nodes, x.parentName)
      callLevel == st.compression # NULL
      dispatched == IF node.type \in NodeTypes \ {"REFERENCE_ID"} THEN {i} ELSE {}
      stepped(r) ==
        [st EXCEPT !.nodes[i] = IF node.type = "DATASET_ID" /\ ~callLevel
                                THEN [r.node EXCEPT !.compression = r.compress]
                                ELSE r.node,
                   !.es = r.es,
                   !.compression = IF node.type = "DATASET_ID" /\ callLevel
                                   THEN r.compress ELSE @,
                   !.dispatched = @ \cup dispatched,
                   !.done = IF r.ret = 0 THEN @ ELSE @ \cup dispatched,
                   !.notCommitted = IF node.type = "TYPE_ID" /\ r.committed <= 0
                                    THEN @ \cup {i} ELSE @,
                   !.failedAt = IF r.ret = 0 THEN i ELSE @]
  IN IF node.mark # "NMARK_CREATED" THEN st
     ELSE IF x.status = 0 THEN [st EXCEPT !.failedAt = i]
     ELSE stepped(
       CASE node.type = "ATTRIBUTE_ID" ->
              doAppendHdf5Attribute(st.es, file_id, parentNode, x.parentName,
                                    node, x.childName)
         [] node.type = "GROUP_ID" ->
              doAppendHdf5Group(st.es, file_id, parentNode, x.parentName,
                                node, x.childName)
         [] node.type = "DATASET_ID" ->
              doAppendHdf5Dataset(st.es, gid, parentNode, x.parentName,
                                  node, x.childName,
                                  IF callLevel THEN st.compression
                                  ELSE node.compression)
         [] node.type = "TYPE_ID" ->
              doWriteHdf5Datatype(st.es, file_id, parentNode, x.parentName,
                                  node, x.childName)
         [] OTHER -> [es |-> st.es, node |-> node, ret |-> 1])

UpdateStep(i, st, file_id, gid) ==
  LET node   == st.nodes[i]
      x      == extractParentChildName(node)
      parentNode == getHL_Node(st.nodes, x.parentName)
      callLevel == st.compression # NULL
      dispatched == IF node.type \in NodeTypes \ {"REFERENCE_ID"} THEN {i} ELSE {}
      stepped(r) ==
        [st EXCEPT !.nodes[i] = IF node.type = "DATASET_ID" /\ ~callLevel
                                THEN [r.node EXCEPT !.compression = r.compress]
                                ELSE r.node,
                   !.es = r.es,
                   !.compression = IF node.type = "DATASET_ID" /\ callLevel
                                   THEN r.compress ELSE @,
                   !.dispatched = @ \cup dispatched,
                   !.done = IF r.ret = 0 THEN @ ELSE @ \cup dispatched,
                   !.notCommitted = IF node.type = "TYPE_ID" /\ r.committed <= 0
                                    THEN @ \cup {i} ELSE @,
                   !.failedAt = IF r.ret = 0 THEN i ELSE @]
  IN IF node.mark # "NMARK_CREATED" THEN st
     ELSE IF x.status = 0 THEN [st EXCEPT !.failedAt = i]
     ELSE IF x.parentName # <<>> /\ parentNode = NULL
       THEN [st EXCEPT !.failedAt = i]
     ELSE stepped(
       CASE node.type = "ATTRIBUTE_ID" ->
              doAppendHdf5Attribute(st.es, file_id, parentNode, x.parentName,
                                    node, x.childName)
         [] node.type = "GROUP_ID" ->
              doAppendHdf5Group(st.es, file_id, parentNode, x.parentName,
                                node, x.childName)
         [] node.type = "DATASET_ID" ->
              doAppendHdf5Dataset(st.es, gid, parentNode, x.parentName,
                                  node, x.childName,
                                  IF callLevel THEN st.compression
                                  ELSE node.compression)
         [] node.type = "TYPE_ID" ->
              doWriteHdf5Datatype(st.es, file_id, parentNode, x.parentName,
                                  node, x.childName)
         [] OTHER -> [es |-> st.es, node |-> node, ret |-> 1])

RECURSIVE UpdateLoop(_, _, _, _)
UpdateLoop(i, st, file_id, gid) ==
  IF st.failedAt # 0 THEN [st EXCEPT !.ret = 0]
  ELSE IF i > Len(st.nodes) THEN [st EXCEPT !.ret = 1]
  ELSE UpdateLoop(i + 1, UpdateStep(i, st, file_id, gid), file_id, gid)

\* gid is declared -1 and never assigned
updateHL_NodeList(nodes, es, compression) ==
  LET gid == -1
      st0 == [nodes |-> nodes, es |-> es, compression |-> compression,
              ret |-> 0, failedAt |-> 0, dispatched |-> {}, done |-> {},
              notCommitted |-> {}, base |-> es.file, given |-> compression]
      closed(l, file_id) ==
        [l EXCEPT !.es = HL_H5F_CLOSE(HL_H5G_CLOSE(l.es, gid), file_id)]
      opened(f) ==
        IF f.id < 0 THEN [st0 EXCEPT !.es = f.es]
        ELSE closed(UpdateLoop(1, [st0 EXCEPT !.es = f.es], f.id, gid), f.id)
  IN opened(openHlHdfFile(es))

----------------------------------------------------------------------------
(* Inputs of the node operations *)

Paths == { <<"g">>, <<"g", "c">>, <<"x", "c">>, <<"t">> }

Sizes == {1, MaxSize}
Bytes == {0, 1}
DimVectors == { <<MaxExtent>>, <<MaxExtent, MaxExtent>> }

\* a caller's buffer of n bytes, all equal to b
Buffer(n, b) == [k \in 1..n |-> b]

NoCall == [op |-> "none", ret |-> 1, idx |-> 0, name |-> <<>>]
NoReport == [op |-> "none", ret |-> 1, failedAt |-> 0, dispatched |-> {}, done |-> {},
             created |-> {}, kept |-> {}, calls |-> 0, compression |-> NULL,
             openBefore |-> {}, marks |-> <<>>, lost |-> {}, notCommitted |-> {},
             given |-> NULL,
             failed |-> {}]
NoFile == [exists |-> FALSE, objs |-> {}]
NoValue == [op |-> "none"]
NotCalled == [pc |-> "none"]

----------------------------------------------------------------------------
(* Operations on one node of the list *)

\* HLHDF_FREE of buffers of node i: a node holding one of them at the same
\* address is left with a dangling pointer, and what it reads there is junk
Dangling(p, junk) ==
  IF p = NULL THEN NULL ELSE Ptr([k \in 1..Len(Deref(p)) |-> junk])

Freed(nodes, i, fields, junk) ==
  [ j \in 1..Len(nodes) |->
      LET hit == { x.field : x \in { y \in alias : /\ y.field \in fields
                                                    /\ {y.a, y.b} = {i, j} } }
      IN IF j = i THEN nodes[j]
         ELSE [nodes[j] EXCEPT
                 !.data    = IF "data" \in hit THEN Dangling(@, junk) ELSE @,
                 !.rawdata = IF "rawdata" \in hit THEN Dangling(@, junk) ELSE @,
                 !.dims    = IF "dims" \in hit THEN Dangling(@, junk) ELSE @] ]

StillShared(i, fields) ==
  { x \in alias : ~(x.field \in fields /\ i \in {x.a, x.b}) }

JunkBytes == IF alias = {} THEN {0} ELSE Bytes

SetScalarValueOf(Ss, Bs, Fs, Ts) ==
  \E i \in 1..Len(nodelist), sz \in Ss, b \in Bs, fmt \in Fs, typid \in Ts,
     junk \in JunkBytes :
    LET r == setHL_NodeScalarValue(nodelist[i], sz, Buffer(sz, b), fmt, typid)
        freed == IF r.status = 1 THEN {"data"} ELSE {}
    IN /\ nodelist' = Freed([nodelist EXCEPT ![i] = r.node], i, freed, junk)
       /\ alias' = StillShared(i, freed)
       /\ last' = [op |-> "setHL_NodeScalarValue", ret |-> r.status, idx |-> i,
                   name |-> nodelist[i].name]
       /\ UNCHANGED <<nextId, file, open, wr, readlist, out, call>>

SetScalarValue == SetScalarValueOf(Sizes, Bytes, FormatTokens, TypeIds)

SetArrayValueOf(Ss, Bs, Ds, Fs, Ts) ==
  \E i \in 1..Len(nodelist), sz \in Ss, b \in Bs, dims \in Ds,
     fmt \in Fs, typid \in Ts, junk \in JunkBytes :
    LET r == setHL_NodeArrayValue(nodelist[i], sz, Len(dims), Ptr(dims),
                                  Buffer(Product(dims) * sz, b), fmt, typid)
        freed == IF r.status = 1 THEN {"data", "dims"} ELSE {}
    IN /\ nodelist' = Freed([nodelist EXCEPT ![i] = r.node], i, freed, junk)
       /\ alias' = StillShared(i, freed)
       /\ last' = [op |-> "setHL_NodeArrayValue", ret |-> r.status, idx |-> i,
                   name |-> nodelist[i].name]
       /\ UNCHANGED <<nextId, file, open, wr, readlist, out, call>>

SetArrayValue == SetArrayValueOf(Sizes, Bytes, DimVectors, FormatTokens, TypeIds)

SetDimensionsOf(Ns, Ds) ==
  \E i \in 1..Len(nodelist), ndims \in Ns, dims \in {NULL} \cup {Ptr(d) : d \in Ds},
     junk \in JunkBytes :
    /\ dims # NULL => ndims <= Len(Deref(dims))
    /\ LET r == setHL_NodeDimensions(nodelist[i], ndims, dims)
           freed == IF r.status = 1 THEN {"dims"} ELSE {}
       IN /\ nodelist' = Freed([nodelist EXCEPT ![i] = r.node], i, freed, junk)
          /\ alias' = StillShared(i, freed)
          /\ last' = [op |-> "setHL_NodeDimensions", ret |-> r.status, idx |-> i,
                      name |-> nodelist[i].name]
    /\ UNCHANGED <<nextId, file, open, wr, readlist, out, call>>

SetDimensions == SetDimensionsOf(0..2, DimVectors)

SetMarkOf(Ms) ==
  \E i \in 1..Len(nodelist), mark \in Ms :
    /\ nodelist' = [nodelist EXCEPT ![i] = setHL_NodeMark(@, mark)]
    /\ last' = [op |-> "setHL_NodeMark", ret |-> 1, idx |-> i, name |-> nodelist[i].name]
    /\ UNCHANGED <<nextId, file, open, wr, alias, readlist, out, call>>

SetMark == SetMarkOf(Marks)

SetTypeOf(Ts) ==
  \E i \in 1..Len(nodelist), type \in Ts :
    /\ nodelist' = [nodelist EXCEPT ![i] = setHL_NodeType(@, type)]
    /\ last' = [op |-> "setHL_NodeType", ret |-> 1, idx |-> i, name |-> nodelist[i].name]
    /\ UNCHANGED <<nextId, file, open, wr, alias, readlist, out, call>>

\* copyHL_Node of the first node; the copy is kept next to the original
CopyNode ==
  \E junk \in Bytes, empty \in {NULL, Ptr(<<>>)} :
    /\ Len(nodelist) = 1
    /\ nextId < MaxAlloc
    /\ LET r == copyHL_Node(nextId + 1, Ptr(nodelist[1]), junk, empty)
       IN /\ r.node # NULL
          /\ nodelist' = Append(nodelist, Deref(r.node))
          /\ alias' = alias \cup { [a |-> 1, b |-> 2, field |-> f] : f \in r.shared }
          /\ last' = [op |-> "copyHL_Node", ret |-> 1, idx |-> 2,
                      name |-> nodelist[1].name]
    /\ nextId' = nextId + 1
    /\ UNCHANGED <<file, open, wr, readlist, out, call>>

\* One node made by a typed constructor
InitNode ==
  /\ \E type \in NodeTypes :
       nodelist = << Deref(newHL_NodeWithType(1, Ptr(<<"g">>), type)) >>
  /\ nextId = 1
  /\ file = NoFile
  /\ open = {}
  /\ last = NoCall
  /\ wr = NoReport
  /\ alias = {}
  /\ readlist = <<>>
  /\ out = NoValue
  /\ call = NotCalled

NextNode == SetScalarValue \/ SetArrayValue \/ SetDimensions \/ SetMark

SpecNode == InitNode /\ [][NextNode]_vars

----------------------------------------------------------------------------
(* A node and its copy *)

\* the node to copy: an attribute given a value by the caller, or a dataset
\* as a read leaves it (bound to its object, with raw data)
Originals ==
  { setHL_NodeScalarValue(Deref(newHL_Attribute(1, Ptr(<<"g">>))),
                          1, <<0>>, "int", -1).node,
    setHL_NodeMark(
      HLNodePrivate_setHdfID(
        HLNodePrivate_setRawdata(
          setHL_NodeArrayValue(Deref(newHL_Dataset(1, Ptr(<<"g">>))),
                               1, 1, Ptr(<<MaxExtent>>), Buffer(MaxExtent, 0),
                               "int", -1).node,
          1, Ptr(Buffer(MaxExtent, 1))),
        0),
      "NMARK_ORIGINAL") }

InitCopy ==
  /\ nodelist \in { <<n>> : n \in Originals }
  /\ nextId = 1
  /\ file = [exists |-> TRUE,
             objs |-> {[path |-> <<"g">>, kind |-> "dataset", written |-> TRUE,
                        type |-> 1, dims |-> <<MaxExtent>>,
                        data |-> Ptr(Buffer(MaxExtent, 0)),
                        filter |-> CT_NONE]}]
  /\ open = { [id |-> nodelist[1].hdfId, kind |-> "dataset", path |-> <<"g">>,
                dims |-> <<>>] :
                x \in IF nodelist[1].hdfId >= 0 THEN {1} ELSE {} }
  /\ last = NoCall
  /\ wr = NoReport
  /\ alias = {}
  /\ readlist = <<>>
  /\ out = NoValue
  /\ call = NotCalled

NextCopy ==
  \/ CopyNode
  \/ SetScalarValueOf({1}, {1}, {"int"}, {-1})
  \/ SetArrayValueOf({1}, {1}, {<<MaxExtent>>}, {"int"}, {-1})
  \/ SetDimensionsOf({0, 1}, {<<MaxExtent>>})
  \/ SetMarkOf({"NMARK_SELECTED"})
  \/ SetTypeOf({"GROUP_ID"})

SpecCopy == InitCopy /\ [][NextCopy]_vars

----------------------------------------------------------------------------
(* Building a node list: a typed constructor, then addHL_Node *)

AddNode ==
  \E name \in Paths, type \in {"GROUP_ID", "ATTRIBUTE_ID"} :
    /\ nextId < MaxAlloc
    /\ Len(nodelist) < MaxNodes
    /\ LET node == Deref(newHL_NodeWithType(nextId + 1, Ptr(name), type))
           r    == addHL_Node(nodelist, node)
       IN /\ nodelist' = r.nodes
          /\ last' = [op |-> "addHL_Node", ret |-> r.status,
                      idx |-> IF r.status = 1 THEN Len(r.nodes) ELSE 0,
                      name |-> name]
    /\ nextId' = nextId + 1
    /\ UNCHANGED <<file, open, wr, alias, readlist, out, call>>

InitList ==
  /\ nodelist = <<>>
  /\ nextId = 0
  /\ file = NoFile
  /\ open = {}
  /\ last = NoCall
  /\ wr = NoReport
  /\ alias = {}
  /\ readlist = <<>>
  /\ out = NoValue
  /\ call = NotCalled

NextList == AddNode

SpecList == InitList /\ [][NextList]_vars

----------------------------------------------------------------------------
(* Writing a node list *)

\* most fallible engine calls one library call can make
MaxCalls == 3 + 4 * MaxNodes

\* the sets of engine calls that fail in one library call
RECURSIVE FailSetsUpTo(_)
FailSetsUpTo(k) ==
  IF k = 0 THEN {{}}
  ELSE LET prev == FailSetsUpTo(k - 1)
       IN prev \cup { S \cup {a} : S \in prev, a \in 1..MaxCalls }

FailSets == FailSetsUpTo(MaxFails)

Zlib6 == Ptr([type |-> CT_ZLIB, level |-> 6])
Szlib == Ptr([type |-> CT_SZLIB, level |-> 0])
CallCompressions == {NULL, Zlib6, Szlib, Ptr([type |-> CT_NONE, level |-> 0])}

\* the objects of the file, as the report of a call names them
PathsIn(f) == { o.path : o \in f.objs }

\* created: the paths the call added to the file its loop started on; kept,
\* lost: the objects of that file that are, are not, in the file as they
\* were; marks: the nodes' marks as the call found them; failed: the engine
\* calls that failed on their own; notCommitted: the TYPE nodes of which
\* H5Tcommitted, asked after their commit, did not answer 1; given: the
\* compression argument as the caller passed it
Report(op, r, nodesBefore, openBefore) ==
  [ op |-> op, ret |-> r.ret, failedAt |-> r.failedAt, dispatched |-> r.dispatched,
    done |-> r.done, created |-> PathsIn(r.es.file) \ PathsIn(r.base),
    kept |-> r.es.file.objs \cap r.base.objs,
    calls |-> r.es.n, compression |-> r.compression, openBefore |-> openBefore,
    marks |-> [i \in 1..Len(nodesBefore) |-> nodesBefore[i].mark],
    lost |-> r.base.objs \ r.es.file.objs,
    notCommitted |-> r.notCommitted, given |-> r.given,
    failed |-> r.es.fails \cap (1..r.es.n) ]

\* the state a write or update call leaves behind
Returned(op, r) ==
  /\ nodelist' = r.nodes
  /\ open' = r.es.open
  /\ file' = r.es.file
  /\ last' = [op |-> op, ret |-> r.ret, idx |-> r.failedAt, name |-> <<>>]
  /\ wr' = Report(op, r, nodelist, open)
  /\ UNCHANGED <<nextId, alias, readlist, out, call>>

\* writeHL_NodeList on the list as prepared (a behaviour of SpecWrite and
\* SpecUpdate is one library call on a prepared list)
\* the engine state a library call starts in
Engine(fails) == [open |-> open, file |-> file, n |-> 0, fails |-> fails]

\* the fail sets that name only calls the library call can reach: a number
\* beyond the calls of the failure-free run names a call that is never made
ReachableFails(n) == { S \in FailSets : S \subseteq 1..n }

WriteNodeList ==
  \E compression \in CallCompressions :
    \E fails \in ReachableFails(writeHL_NodeList(nodelist, Engine({}), compression).es.n) :
      /\ wr.op = "none"
      /\ Returned("writeHL_NodeList",
                  writeHL_NodeList(nodelist, Engine(fails), compression))

UpdateNodeList ==
  \E compression \in CallCompressions :
    \E fails \in ReachableFails(updateHL_NodeList(nodelist, Engine({}), compression).es.n) :
      /\ wr.op = "none"
      /\ Returned("updateHL_NodeList",
                  updateHL_NodeList(nodelist, Engine(fails), compression))

\* The nodes a caller makes with the constructors and setters
MkNode(id, name, type) == Deref(newHL_NodeWithType(id, Ptr(name), type))
WithScalar(node, b) == setHL_NodeScalarValue(node, 1, <<b>>, "int", -1).node
WithArray(node) ==
  setHL_NodeArrayValue(node, 1, 1, Ptr(<<MaxExtent>>), Buffer(MaxExtent, 0), "int", -1).node
setHL_NodeCompression(node, compression) == [node EXCEPT !.compression = compression]
commitHL_Datatype(node, hid) == [node EXCEPT !.hdfId = hid]

\* what a node of a given name may be, by a short tag
KindsAt(name) ==
  CASE name = <<"g">>      -> {"G", "D", "U"}
    [] name = <<"g", "c">> -> {"G", "D", "Dz", "Dn", "A", "Aa", "An", "T", "R", "Rn", "U"}
    [] name = <<"x", "c">> -> {"A"}
    [] OTHER               -> {"T"}

Made(id, name, kind) ==
  CASE kind = "G"  -> MkNode(id, name, "GROUP_ID")
    [] kind = "D"  -> WithArray(MkNode(id, name, "DATASET_ID"))
    [] kind = "Dz" -> setHL_NodeCompression(WithArray(MkNode(id, name, "DATASET_ID")), Zlib6)
    [] kind = "Dn" -> MkNode(id, name, "DATASET_ID")
    [] kind = "A"  -> WithScalar(MkNode(id, name, "ATTRIBUTE_ID"), 1)
    [] kind = "Aa" -> WithArray(MkNode(id, name, "ATTRIBUTE_ID"))
    [] kind = "An" -> MkNode(id, name, "ATTRIBUTE_ID")
    [] kind = "T"  -> commitHL_Datatype(MkNode(id, name, "TYPE_ID"), id - 1)
    [] kind = "R"  -> WithScalar(MkNode(id, name, "REFERENCE_ID"), 0)
    [] kind = "Rn" -> WithScalar(MkNode(id, name, "REFERENCE_ID"), 1)
    [] OTHER       -> Deref(newHL_Node(id, Ptr(name)))

\* the type handles the caller made for the TYPE nodes of a list
TypeHandles(nodes) ==
  { [id |-> nodes[i].hdfId, kind |-> "type", path |-> <<>>, dims |-> <<>>] :
      i \in { j \in 1..Len(nodes) : nodes[j].type = "TYPE_ID" /\ nodes[j].hdfId >= 0 } }

\* the sequences of up to n entries of E, no two of the same name (an entry
\* is a tuple that begins with the name)
RECURSIVE Arrangements(_, _)
Arrangements(E, n) ==
  IF n = 0 THEN {<<>>}
  ELSE LET prev == Arrangements(E, n - 1)
       IN prev \cup
          { Append(x[1], x[2]) :
              x \in { y \in { l \in prev : Len(l) = n - 1 } \X E :
                        \A i \in 1..Len(y[1]) : y[1][i][1] # y[2][1] } }

\* the lists of up to MaxNodes nodes of different names
PreparedLists ==
  Arrangements(UNION { { <<p, k>> : k \in KindsAt(p) } : p \in Paths }, MaxNodes)
    \ {<<>>}

InitWrite ==
  /\ \E l \in PreparedLists :
       nodelist = [i \in 1..Len(l) |-> Made(i, l[i][1], l[i][2])]
  /\ nextId = Len(nodelist)
  /\ file = NoFile
  /\ open = TypeHandles(nodelist)
  /\ last = NoCall
  /\ wr = NoReport
  /\ alias = {}
  /\ readlist = <<>>
  /\ out = NoValue
  /\ call = NotCalled

NextWrite == WriteNodeList

SpecWrite == InitWrite /\ [][NextWrite]_vars

----------------------------------------------------------------------------
(* Updating a file: the list holds the nodes read from it (mark Original,  *)
(* or Selected, or Changed by a setter since; their objects in the file)   *)
(* and nodes added since (mark Created)                                    *)

\* the object of the file a node read from it stands for
ObjectOf(name, kind) ==
  [ path |-> name,
    kind |-> CASE kind = "G" -> "group" [] kind = "D" -> "dataset" [] OTHER -> "attribute",
    written |-> TRUE, filter |-> CT_NONE,
    type |-> Made(0, name, kind).typeId,
    dims |-> IF Made(0, name, kind).dims = NULL THEN <<>>
             ELSE Deref(Made(0, name, kind).dims),
    data |-> Made(0, name, kind).data ]

\* lists of <<name, kind, mark>>: a node read from the file is a group, a
\* dataset or an attribute, and follows the node it lies under
ReadAndAddedLists ==
  { l \in Arrangements(UNION { { <<p, k, m>> :
                                   k \in KindsAt(p) \cap {"G", "D", "Dn", "A", "An", "T", "R", "U"},
                                   m \in Marks }
                                 : p \in Paths }, MaxNodes) :
      /\ \E i \in 1..Len(l) : l[i][3] = "NMARK_CREATED"
      /\ \A i \in 1..Len(l) : l[i][3] # "NMARK_CREATED" =>
            /\ l[i][2] \in {"G", "D", "A"}
            /\ Len(l[i][1]) > 1 =>
                  \E j \in 1..(i - 1) :
                    /\ l[j][1] = SubSeq(l[i][1], 1, Len(l[i][1]) - 1)
                    /\ l[j][3] # "NMARK_CREATED"
                    /\ l[j][2] = IF l[i][2] = "A" THEN l[j][2] ELSE "G" }

InitUpdate ==
  /\ \E l \in ReadAndAddedLists :
       /\ nodelist = [i \in 1..Len(l) |->
                        setHL_NodeMark(Made(i, l[i][1], l[i][2]), l[i][3])]
       /\ file = [exists |-> TRUE,
                  objs |-> { ObjectOf(l[i][1], l[i][2]) :
                               i \in { j \in 1..Len(l) : l[j][3] # "NMARK_CREATED" } }]
  /\ nextId = Len(nodelist)
  /\ open = TypeHandles(nodelist)
  /\ last = NoCall
  /\ wr = NoReport
  /\ alias = {}
  /\ readlist = <<>>
  /\ out = NoValue
  /\ call = NotCalled

NextUpdate == WriteNodeList \/ UpdateNodeList

SpecUpdate == InitUpdate /\ [][NextUpdate]_vars

----------------------------------------------------------------------------
(* Reading a file back.  readHL_NodeList, selectAllNodes and               *)
(* fetchMarkedNodes (hlhdf_read.c) are not among the sources at hand: they *)
(* follow the description of the read/fetch engine and the read example.   *)

\* the order in which the engine walks the objects of a file
WalkOrder == << <<"g">>, <<"g", "c">>, <<"t">>, <<"x", "c">> >>

TypeOfKind(kind) ==
  CASE kind = "group"     -> "GROUP_ID"
    [] kind = "dataset"   -> "DATASET_ID"
    [] kind = "attribute" -> "ATTRIBUTE_ID"
    [] kind = "type"      -> "TYPE_ID"
    [] OTHER              -> "REFERENCE_ID"

\* the node made for an object when the structure is read: no payload yet
ReadNode(id, o) ==
  setHL_NodeMark(
    HLNodePrivate_setTypeIdAndDeriveFormat(
      Deref(newHL_NodeWithType(id, Ptr(o.path), TypeOfKind(o.kind))), o.type).node,
    "NMARK_ORIGINAL")

\* readHL_NodeList: NULL, or the list of one node for each object of the file
readHL_NodeList(es, firstId) ==
  LET present == SelectSeq(WalkOrder, LAMBDA q : q \in PathsIn(es.file))
      walked(f) ==
        IF f.id < 0 THEN [es |-> f.es, list |-> NULL]
        ELSE [ es |-> HL_H5F_CLOSE(f.es, f.id),
               list |-> Ptr([ k \in 1..Len(present) |->
                                ReadNode(firstId + k - 1,
                                         CHOOSE o \in es.file.objs :
                                           o.path = present[k]) ]) ]
  IN walked(openHlHdfFile(es))

\* selectAllNodes
selectAllNodes(nodes) ==
  [ k \in 1..Len(nodes) |-> setHL_NodeMark(nodes[k], "NMARK_SELECTED") ]

\* selectNode: the node of the given path is marked for the next fetch
selectNode(nodes, name) ==
  [ k \in 1..Len(nodes) |->
      IF equalsHL_NodeName(nodes[k], name) = 1
      THEN setHL_NodeMark(nodes[k], "NMARK_SELECTED") ELSE nodes[k] ]

\* the bytes read from an object: those written to it, or the fill value
StoredBytes(o) ==
  IF o.data # NULL THEN Deref(o.data) ELSE Buffer(Product(o.dims), 0)

\* a selected node receives the extents and the payload of its object
Fetched(node, o) ==
  setHL_NodeDataType(
    HLNodePrivate_setData(
      setHL_NodeDimensions(node, Len(o.dims),
                           IF o.dims = <<>> THEN NULL ELSE Ptr(o.dims)).node,
      Len(StoredBytes(o)) \div Product(o.dims),
      Ptr(StoredBytes(o))),
    IF o.dims = <<>> THEN "HL_SIMPLE" ELSE "HL_ARRAY")

\* the payload of every attribute, dataset and reference node read from the
\* file, whatever the mark of the node
fetchMarkedNodes_AnyMark(es, nodes) ==
  LET marked(k) ==
        /\ nodes[k].type \in {"ATTRIBUTE_ID", "DATASET_ID", "REFERENCE_ID"}
        /\ \E o \in es.file.objs : o.path = nodes[k].name
      filled(f) ==
        IF f.id < 0 THEN [es |-> f.es, nodes |-> nodes, ret |-> 0]
        ELSE [ es |-> HL_H5F_CLOSE(f.es, f.id),
               nodes |-> [ k \in 1..Len(nodes) |->
                             IF marked(k)
                             THEN Fetched(nodes[k], CHOOSE o \in es.file.objs :
                                                      o.path = nodes[k].name)
                             ELSE nodes[k] ],
               ret |-> 1 ]
  IN filled(openHlHdfFile(es))

\* fetchMarkedNodes: the payload of every selected attribute, dataset and
\* reference node is read from the file
fetchMarkedNodes(es, nodes) ==
  LET marked(k) ==
        /\ nodes[k].mark = "NMARK_SELECTED"
        /\ nodes[k].type \in {"ATTRIBUTE_ID", "DATASET_ID", "REFERENCE_ID"}
        /\ \E o \in es.file.objs : o.path = nodes[k].name
      filled(f) ==
        IF f.id < 0 THEN [es |-> f.es, nodes |-> nodes, ret |-> 0]
        ELSE [ es |-> HL_H5F_CLOSE(f.es, f.id),
               nodes |-> [ k \in 1..Len(nodes) |->
                             IF marked(k)
                             THEN Fetched(nodes[k], CHOOSE o \in es.file.objs :
                                                      o.path = nodes[k].name)
                             ELSE nodes[k] ],
               ret |-> 1 ]
  IN filled(openHlHdfFile(es))

ReadNodeList ==
  \E fails \in {{}, {1}} :
    /\ wr.op = "writeHL_NodeList"
    /\ readlist = <<>>
    /\ LET r == readHL_NodeList([open |-> open, file |-> file, n |-> 0, fails |-> fails],
                                nextId + 1)
       IN /\ readlist' = IF r.list = NULL THEN <<>> ELSE Deref(r.list)
          /\ nextId' = nextId + Len(readlist')
          /\ open' = r.es.open
          /\ last' = [op |-> "readHL_NodeList", ret |-> IF r.list = NULL THEN 0 ELSE 1,
                      idx |-> 0, name |-> <<>>]
    /\ UNCHANGED <<nodelist, file, wr, alias, out, call>>

SelectAllNodes ==
  /\ readlist # <<>>
  /\ readlist' = selectAllNodes(readlist)
  /\ last' = [op |-> "selectAllNodes", ret |-> 1, idx |-> 0, name |-> <<>>]
  /\ UNCHANGED <<nodelist, nextId, file, open, wr, alias, out, call>>

SelectNode ==
  \E k \in 1..Len(readlist) :
    /\ readlist' = selectNode(readlist, readlist[k].name)
    /\ last' = [op |-> "selectNode", ret |-> 1, idx |-> k, name |-> readlist[k].name]
    /\ UNCHANGED <<nodelist, nextId, file, open, wr, alias, out, call>>

\* last.idx counts the fetchMarkedNodes calls made in a row
FetchMarkedNodes ==
  \E fails \in {{}, {1}} :
    /\ readlist # <<>>
    /\ last.op = "fetchMarkedNodes" => last.idx < MaxFetches
    /\ LET r == fetchMarkedNodes([open |-> open, file |-> file, n |-> 0, fails |-> fails],
                                 readlist)
       IN /\ readlist' = r.nodes
          /\ open' = r.es.open
          /\ last' = [op |-> "fetchMarkedNodes", ret |-> r.ret,
                      idx |-> IF last.op = "fetchMarkedNodes" THEN last.idx + 1 ELSE 1,
                      name |-> <<>>]
    /\ UNCHANGED <<nodelist, nextId, file, wr, alias, out, call>>

\* a payload of n bytes, not all the same
Payload(n, b) == [k \in 1..n |-> (k + b) % 2]

\* the list of the round trip: a group, a scalar attribute under it and a
\* compressed dataset of two dimensions at the root
RoundTripNodes(a, d) ==
  { MkNode(1, <<"g">>, "GROUP_ID"),
    WithScalar(MkNode(2, <<"g", "c">>, "ATTRIBUTE_ID"), a),
    setHL_NodeCompression(
      setHL_NodeArrayValue(MkNode(3, <<"t">>, "DATASET_ID"), 1, 2,
                           Ptr(<<MaxExtent, MaxExtent>>),
                           Payload(MaxExtent * MaxExtent, d), "int", -1).node,
      Zlib6) }

RoundTripLists ==
  { l \in UNION { Arrangements({ <<n.name, n>> : n \in RoundTripNodes(a, d) }, 3) :
                    a \in Bytes, d \in Bytes } :
      /\ Len(l) = 3
      /\ \E i, j \in 1..3 : i < j /\ l[i][1] = <<"g">> /\ l[j][1] = <<"g", "c">> }

InitRound ==
  /\ nodelist \in { [k \in 1..3 |-> l[k][2]] : l \in RoundTripLists }
  /\ nextId = 3
  /\ file = NoFile
  /\ open = {}
  /\ last = NoCall
  /\ wr = NoReport
  /\ alias = {}
  /\ readlist = <<>>
  /\ out = NoValue
  /\ call = NotCalled

NextRound ==
  WriteNodeList \/ ReadNodeList \/ SelectAllNodes \/ SelectNode \/ FetchMarkedNodes

SpecRound == InitRound /\ [][NextRound]_vars

----------------------------------------------------------------------------
(* The typed constructors, each node added to the list (SpecNew) *)

NewTyped(type, id, name) ==
  CASE type = "GROUP_ID"     -> newHL_Group(id, name)
    [] type = "ATTRIBUTE_ID" -> newHL_Attribute(id, name)
    [] type = "DATASET_ID"   -> newHL_Dataset(id, name)
    [] type = "TYPE_ID"      -> newHL_Datatype(id, name)
    [] OTHER                 -> newHL_Reference(id, name)

\* a typed constructor called with a name or with NULL; the node it returns
\* is handed to addHL_Node
NewNames == {NULL, Ptr(<<"g">>), Ptr(<<"g", "c">>)}

NewNode ==
  \E type \in NodeTypes, name \in NewNames :
    /\ nextId < MaxAlloc
    /\ Len(nodelist) < MaxNodes
    /\ LET made == NewTyped(type, nextId + 1, name)
           added(r) ==
             /\ nodelist' = r.nodes
             /\ last' = [op |-> "newHL_Node", ret |-> r.status,
                         idx |-> IF r.status = 1 THEN Len(r.nodes) ELSE 0,
                         name |-> Deref(name)]
       IN /\ out' = [op |-> "newHL_Node", type |-> type, name |-> name, node |-> made]
          /\ nextId' = IF made = NULL THEN nextId ELSE nextId + 1
          /\ IF made = NULL
             THEN /\ nodelist' = nodelist
                  /\ last' = [op |-> "newHL_Node", ret |-> 0, idx |-> 0, name |-> <<>>]
             ELSE added(addHL_Node(nodelist, Deref(made)))
    /\ UNCHANGED <<file, open, wr, alias, readlist, call>>

NextNew == NewNode

SpecNew == InitList /\ [][NextNew]_vars

----------------------------------------------------------------------------
(* Accessors of a list and of its nodes (SpecAccess) *)

\* the two halves of an object identity
ObjNos == {0, 1}

\* what the node of a given name is in a list of SpecAccess ("-": no node)
AccessKinds(name) ==
  CASE name = <<"g">>      -> {"-", "G", "Gd"}
    [] name = <<"g", "c">> -> {"-", "A", "Aa"}
    [] name = <<"t">>      -> {"-", "D", "Dn", "T01"}
    [] OTHER               -> {"-", "T01", "T10", "Tn"}

AccessNode(id, name, kind) ==
  CASE kind = "G"   -> MkNode(id, name, "GROUP_ID")
    [] kind = "Gd"  -> setHL_NodeCompoundDescription(
                         MkNode(id, name, "GROUP_ID"),
                         Ptr(HL_CompoundTypeDescription(id, 0, 1)))
    [] kind = "A"   -> WithScalar(MkNode(id, name, "ATTRIBUTE_ID"), 1)
    [] kind = "Aa"  -> setHL_NodeArrayValue(
                         MkNode(id, name, "ATTRIBUTE_ID"), 1, 2,
                         Ptr(<<MaxExtent, MaxExtent>>),
                         Buffer(MaxExtent * MaxExtent, 0), "int", -1).node
    [] kind = "D"   -> WithArray(MkNode(id, name, "DATASET_ID"))
    [] kind = "Dn"  -> setHL_NodeDimensions(MkNode(id, name, "DATASET_ID"), 1, NULL).node
    [] kind = "T01" -> setHL_NodeCompoundDescription(
                         MkNode(id, name, "TYPE_ID"),
                         Ptr(HL_CompoundTypeDescription(id, 0, 1)))
    [] kind = "T10" -> setHL_NodeCompoundDescription(
                         MkNode(id, name, "TYPE_ID"),
                         Ptr(HL_CompoundTypeDescription(id, 1, 0)))
    [] OTHER        -> MkNode(id, name, "TYPE_ID")

\* the lists: for each path in turn one of its nodes, or none
AccessLists ==
  { SelectSeq([k \in 1..Len(WalkOrder) |-> <<WalkOrder[k], c[k]>>],
              LAMBDA e : e[2] # "-") :
      c \in AccessKinds(WalkOrder[1]) \X AccessKinds(WalkOrder[2])
              \X AccessKinds(WalkOrder[3]) \X AccessKinds(WalkOrder[4]) }

InitAccess ==
  /\ \E l \in AccessLists :
       nodelist = [i \in 1..Len(l) |-> AccessNode(i, l[i][1], l[i][2])]
  /\ nextId = Len(nodelist)
  /\ file = NoFile
  /\ open = {}
  /\ last = NoCall
  /\ wr = NoReport
  /\ alias = {}
  /\ readlist = <<>>
  /\ out = NoValue
  /\ call = NotCalled

FindCompoundTypeDescription ==
  \E objno0 \in ObjNos, objno1 \in ObjNos :
    LET descr == findHL_CompoundTypeDescription(nodelist, objno0, objno1)
    IN /\ out' = [op |-> "findHL_CompoundTypeDescription",
                  objno |-> <<objno0, objno1>>, descr |-> descr]
       /\ last' = [op |-> "findHL_CompoundTypeDescription",
                   ret |-> IF descr = NULL THEN 0 ELSE 1, idx |-> 0, name |-> <<>>]
       /\ UNCHANGED <<nodelist, nextId, file, open, wr, alias, readlist, call>>

MarkNodeListNodes ==
  \E mark \in Marks :
    /\ nodelist' = markHL_NodeListNodes(nodelist, mark)
    /\ out' = [op |-> "markHL_NodeListNodes", mark |-> mark]
    /\ last' = [op |-> "markHL_NodeListNodes", ret |-> 1, idx |-> 0, name |-> <<>>]
    /\ UNCHANGED <<nextId, file, open, wr, alias, readlist, call>>

GetDimensions ==
  \E i \in 1..Len(nodelist) :
    LET r == getHL_NodeDimensions(nodelist[i])
    IN /\ out' = [op |-> "getHL_NodeDimensions", idx |-> i,
                  ndims |-> r.ndims, dims |-> r.dims, at |-> r.at]
       /\ last' = [op |-> "getHL_NodeDimensions", ret |-> 1, idx |-> i,
                   name |-> nodelist[i].name]
       /\ UNCHANGED <<nodelist, nextId, file, open, wr, alias, readlist, call>>

GetDimension ==
  \E i \in 1..Len(nodelist), index \in -1..MaxExtent, junk \in Bytes :
    LET r == getHL_NodeDimension(nodelist[i], index, junk)
    IN /\ out' = [op |-> "getHL_NodeDimension", idx |-> i, index |-> index,
                  value |-> r.value, read |-> r.read]
       /\ last' = [op |-> "getHL_NodeDimension", ret |-> 1, idx |-> i,
                   name |-> nodelist[i].name]
       /\ UNCHANGED <<nodelist, nextId, file, open, wr, alias, readlist, call>>

\* the caller writes an extent of 0 into the array getHL_NodeDimensions gave it
WriteReturnedDimensions ==
  \E k \in 1..MaxNodes :
    /\ out.op = "getHL_NodeDimensions"
    /\ out.dims # NULL
    /\ k <= Len(Deref(out.dims))
    /\ out' = [out EXCEPT !.dims = Ptr([Deref(@) EXCEPT ![k] = 0])]
    /\ nodelist' = IF out.at = "node"
                   THEN [nodelist EXCEPT ![out.idx].dims = Ptr([Deref(@) EXCEPT ![k] = 0])]
                   ELSE nodelist
    /\ last' = [op |-> "write to dims", ret |-> 1, idx |-> out.idx,
                name |-> nodelist[out.idx].name]
    /\ UNCHANGED <<nextId, file, open, wr, alias, readlist, call>>

NextAccess ==
  \/ FindCompoundTypeDescription
  \/ MarkNodeListNodes
  \/ GetDimensions
  \/ GetDimension
  \/ WriteReturnedDimensions

SpecAccess == InitAccess /\ [][NextAccess]_vars

----------------------------------------------------------------------------
(* One call of writeHL_NodeList or updateHL_NodeList, statement by         *)
(* statement (SpecLoop): call.pc is the statement the call is at, call.i   *)
(* the loop index (counted from 1), call.st the state the loop works on,   *)
(* call.visited the indices the loop body ran for and call.dispatches the  *)
(* indices it handed to a helper, both in order of time.  The list, the    *)
(* file and the open handles are the caller's view: they change when the   *)
(* call returns                                                            *)

\* the place of a name in the order a file is walked in
Rank(name) == CHOOSE k \in 1..Len(WalkOrder) : WalkOrder[k] = name

\* the lists of nodes read (mark Original) and nodes added since (mark
\* Created), parents before children
LoopLists ==
  { l \in ReadAndAddedLists :
      /\ \A i \in 1..Len(l) :
           /\ l[i][2] \in {"G", "D", "A", "T", "R"}
           /\ l[i][3] \in {"NMARK_CREATED", "NMARK_ORIGINAL"}
      /\ \A i, j \in 1..Len(l) : i < j => Rank(l[i][1]) < Rank(l[j][1]) }

\* the file may hold a group /x made since the list was read, for which the
\* list has no node
InitLoop ==
  /\ \E l \in LoopLists :
       \E others \in SUBSET {ObjectOf(<<"x">>, "G")} :
         /\ nodelist = [i \in 1..Len(l) |->
                          setHL_NodeMark(Made(i, l[i][1], l[i][2]), l[i][3])]
         /\ file = [exists |-> TRUE,
                    objs |-> others \cup
                             { ObjectOf(l[i][1], l[i][2]) :
                                 i \in { j \in 1..Len(l) : l[j][3] # "NMARK_CREATED" } }]
  /\ nextId = Len(nodelist)
  /\ open = TypeHandles(nodelist)
  /\ last = NoCall
  /\ wr = NoReport
  /\ alias = {}
  /\ readlist = <<>>
  /\ out = NoValue
  /\ call = NotCalled

\* the loop index staying where it is
NextIndex_Stay(i) == i

\* i++
NextIndex(i) == i + 1

\* the state the loop of a call starts on
LoopState(nodes, es, compression) ==
  [ nodes |-> nodes, es |-> es, compression |-> compression,
    ret |-> 0, failedAt |-> 0, dispatched |-> {}, done |-> {},
    notCommitted |-> {}, base |-> es.file, given |-> compression ]

\* writeHL_NodeList down to its loop: the file is created and its root
\* group opened; when either fails the call goes to its return
WriteEntry(nodes, es, compression) ==
  LET st0 == LoopState(nodes, es, compression)
      rooted(f, g) ==
        IF g.id < 0
          THEN [ pc |-> "return", file_id |-> -1, gid |-> -1,
                 st |-> [st0 EXCEPT !.es = HL_H5F_CLOSE(g.es, f.id),
                                    !.base = f.es.file] ]
        ELSE [ pc |-> "for", file_id |-> f.id, gid |-> g.id,
               st |-> [st0 EXCEPT !.es = g.es, !.base = f.es.file] ]
      filed(f) ==
        IF f.id < 0
          THEN [ pc |-> "return", file_id |-> -1, gid |-> -1,
                 st |-> [st0 EXCEPT !.es = f.es] ]
        ELSE rooted(f, H5Gopen(f.es, f.id, <<>>))
  IN filed(createHlHdfFile(es))

\* updateHL_NodeList down to its loop: the file is opened; gid stays -1
UpdateEntry(nodes, es, compression) ==
  LET st0 == LoopState(nodes, es, compression)
      opened(f) ==
        IF f.id < 0
          THEN [ pc |-> "return", file_id |-> -1, gid |-> -1,
                 st |-> [st0 EXCEPT !.es = f.es] ]
        ELSE [ pc |-> "for", file_id |-> f.id, gid |-> -1,
               st |-> [st0 EXCEPT !.es = f.es] ]
  IN opened(openHlHdfFile(es))

\* a call as it stands before the first test of its loop
Entered(op, e) ==
  [ op |-> op, pc |-> e.pc, i |-> 1, st |-> e.st, file_id |-> e.file_id,
    gid |-> e.gid, visited |-> <<>>, dispatches |-> <<>> ]

\* the body of the loop of either function
LoopStep(op, i, st, file_id, gid) ==
  IF op = "writeHL_NodeList" THEN WriteStep(i, st, file_id, gid)
  ELSE UpdateStep(i, st, file_id, gid)

CallWrite ==
  /\ call.pc = "none"
  /\ \E fails \in ReachableFails(writeHL_NodeList(nodelist, Engine({}), NULL).es.n) :
       call' = Entered("writeHL_NodeList", WriteEntry(nodelist, Engine(fails), NULL))
  /\ UNCHANGED <<nodelist, nextId, file, open, last, wr, alias, readlist, out>>

CallUpdate ==
  /\ call.pc = "none"
  /\ \E fails \in ReachableFails(updateHL_NodeList(nodelist, Engine({}), NULL).es.n) :
       call' = Entered("updateHL_NodeList", UpdateEntry(nodelist, Engine(fails), NULL))
  /\ UNCHANGED <<nodelist, nextId, file, open, last, wr, alias, readlist, out>>

\* for (...; i < nNodes; ...)
LoopTest ==
  /\ call.pc = "for"
  /\ call' = IF call.i > Len(call.st.nodes)
               THEN [call EXCEPT !.pc = "return", !.st.ret = 1]
             ELSE [call EXCEPT !.pc = "body"]
  /\ UNCHANGED <<nodelist, nextId, file, open, last, wr, alias, readlist, out>>

\* the call after the body of its loop ran for node c.i; a failure leaves
\* the loop (goto fail)
AfterBody(c) ==
  LET stepped(s) ==
        [c EXCEPT !.st = s,
                  !.pc = IF s.failedAt # 0 THEN "return" ELSE "next",
                  !.visited = Append(@, c.i),
                  !.dispatches = IF c.i \in s.dispatched THEN Append(@, c.i) ELSE @]
  IN stepped(LoopStep(c.op, c.i, c.st, c.file_id, c.gid))

LoopBody ==
  /\ call.pc = "body"
  /\ call' = AfterBody(call)
  /\ UNCHANGED <<nodelist, nextId, file, open, last, wr, alias, readlist, out>>

\* for (...; ...; i++)
LoopNext ==
  /\ call.pc = "next"
  /\ call' = [call EXCEPT !.pc = "for", !.i = NextIndex(call.i)]
  /\ UNCHANGED <<nodelist, nextId, file, open, last, wr, alias, readlist, out>>

\* the root group and the file are closed and the call returns
CallReturn ==
  /\ call.pc = "return"
  /\ LET r == [call.st EXCEPT
                 !.es = HL_H5F_CLOSE(HL_H5G_CLOSE(call.st.es, call.gid),
                                     call.file_id)]
     IN /\ nodelist' = r.nodes
        /\ open' = r.es.open
        /\ file' = r.es.file
        /\ last' = [op |-> call.op, ret |-> r.ret, idx |-> r.failedAt, name |-> <<>>]
        /\ wr' = Report(call.op, r, nodelist, open)
        /\ call' = [call EXCEPT !.pc = "returned", !.st = r]
  /\ UNCHANGED <<nextId, alias, readlist, out>>

\* the statements of a call around the body of its loop
Control == LoopTest \/ LoopNext \/ CallReturn

NextLoop == CallWrite \/ CallUpdate \/ LoopTest \/ LoopBody \/ LoopNext \/ CallReturn

SpecLoop == InitLoop /\ [][NextLoop]_vars

\* a call that was made runs on: the caller's thread executes the function's
\* statements one after the other (whether a call is made is up to the
\* caller).  The body is enabled exactly when call.pc = "body" and its step
\* leaves that statement, so WF_vars(LoopBody) is written as the formula it
\* amounts to: the call is not at the body for ever
SpecLoopFair == SpecLoop /\ WF_vars(Control) /\ []<>(call.pc # "body")

----------------------------------------------------------------------------
(* Calls one after the other on one list (SpecRepeat): the list is written *)
(* and updated any number of times, each call as a whole; between calls    *)
(* the caller may name another file to write to.  setHL_NodeListFileName   *)
(* is declared in the header and defined in hlhdf_nodelist.c, which is not *)
(* among the sources at hand: it is taken to replace the list's file name  *)
(* and nothing else.  The file the list was written to before keeps its    *)
(* objects, and the handles open on them stay open: their paths are told   *)
(* from those of the new file by a leading ".."                            *)

Moved(path) == <<"..">> \o path

\* a second HDF5 file is enough to tell a handle of an earlier write from a
\* handle of the present one: the name is changed once
setHL_NodeListFileName(es) ==
  [es EXCEPT !.file = [exists |-> FALSE,
                       objs |-> { [o EXCEPT !.path = Moved(@)] : o \in es.file.objs }],
             !.open = { IF OnFile(h) THEN [h EXCEPT !.path = Moved(@)] ELSE h :
                          h \in es.open }]

\* the lists a caller builds, parents before children
RepeatLists ==
  { l \in PreparedLists :
      /\ \A i \in 1..Len(l) : l[i][2] \in {"G", "D", "A", "T", "R"}
      /\ \A i, j \in 1..Len(l) : i < j => Rank(l[i][1]) < Rank(l[j][1]) }

InitRepeat ==
  /\ \E l \in RepeatLists :
       nodelist = [i \in 1..Len(l) |-> Made(i, l[i][1], l[i][2])]
  /\ nextId = Len(nodelist)
  /\ file = NoFile
  /\ open = TypeHandles(nodelist)
  /\ last = NoCall
  /\ wr = NoReport
  /\ alias = {}
  /\ readlist = <<>>
  /\ out = NoValue
  /\ call = NotCalled

\* in each call no engine call fails, or one of those it makes
OneFailure(n) == {{}} \cup { {k} : k \in 1..n }

WriteAgain ==
  \E fails \in OneFailure(writeHL_NodeList(nodelist, Engine({}), NULL).es.n) :
    Returned("writeHL_NodeList", writeHL_NodeList(nodelist, Engine(fails), NULL))

UpdateAgain ==
  \E fails \in OneFailure(updateHL_NodeList(nodelist, Engine({}), NULL).es.n) :
    Returned("updateHL_NodeList", updateHL_NodeList(nodelist, Engine(fails), NULL))

SetNodeListFileName ==
  /\ file.exists
  /\ \A o \in file.objs : ~Elsewhere(o.path)
  /\ \A h \in open : ~Elsewhere(h.path)
  /\ file' = setHL_NodeListFileName(Engine({})).file
  /\ open' = setHL_NodeListFileName(Engine({})).open
  /\ last' = [op |-> "setHL_NodeListFileName", ret |-> 1, idx |-> 0, name |-> <<>>]
  /\ UNCHANGED <<nodelist, nextId, wr, alias, readlist, out, call>>

\* HLNodePrivate_setHdfID(node, hdfid) on a Reference node of the list
SetReferenceHdfID ==
  \E k \in 1..Len(nodelist) :
    \E hdfid \in {0, MaxAlloc} :
      /\ nodelist[k].type = "REFERENCE_ID"
      /\ nodelist' = [nodelist EXCEPT ![k] = HLNodePrivate_setHdfID(@, hdfid)]
      /\ last' = [op |-> "HLNodePrivate_setHdfID", ret |-> 1, idx |-> k, name |-> <<>>]
      /\ UNCHANGED <<nextId, file, open, wr, alias, readlist, out, call>>

NextRepeat == WriteAgain \/ UpdateAgain \/ SetNodeListFileName \/ SetReferenceHdfID

SpecRepeat == InitRepeat /\ [][NextRepeat]_vars

----------------------------------------------------------------------------
(* Properties of the node list (SpecList) *)

NamesOf(nodes) == { nodes[i].name : i \in 1..Len(nodes) }

\* C1: after a successful addHL_Node(list, n), getHL_Node(list, name of n) is n
\* itself (the node just allocated, now last in the list); addHL_Node of a name
\* already in the list fails and leaves the list as it was; an add succeeds
\* otherwise; so no two nodes of the list share a name.
C1_AddThenGet ==
  [][ last'.op = "addHL_Node" =>
        /\ last'.ret = 0 <=> last'.name \in NamesOf(nodelist)
        /\ last'.ret = 0 => nodelist' = nodelist
        /\ last'.ret = 1 =>
             /\ Len(nodelist') = Len(nodelist) + 1
             /\ SubSeq(nodelist', 1, Len(nodelist)) = nodelist
             /\ nodelist'[Len(nodelist')].id = nextId'
             /\ getHL_Node(nodelist', last'.name) = Ptr(nodelist'[Len(nodelist')])
        /\ \A i, j \in 1..Len(nodelist') :
             nodelist'[i].name = nodelist'[j].name => i = j
        /\ \A i \in 1..Len(nodelist') :
             getHL_Node(nodelist', nodelist'[i].name) = Ptr(nodelist'[i]) ]_vars

\* C1 witness: an add was refused for a name held by a node of a list of two
C1_Witness ==
  /\ last.op = "addHL_Node"
  /\ last.ret = 0
  /\ Len(nodelist) >= 2
  /\ last.name \in NamesOf(nodelist)

----------------------------------------------------------------------------
(* Properties of the node operations (SpecNode) *)

DataLen(node) == IF node.data = NULL THEN 0 ELSE Len(Deref(node.data))

SetValueOps == {"setHL_NodeScalarValue", "setHL_NodeArrayValue"}

\* C2: in every state reached by setHL_NodeScalarValue, setHL_NodeArrayValue and
\* setHL_NodeDimensions calls, every node's data buffer holds exactly
\* dSize * getHL_NodeNumberOfPoints(node) bytes.
C2_DataLenIsSizeTimesPoints ==
  \A i \in 1..Len(nodelist) :
    DataLen(nodelist[i]) = nodelist[i].dSize * getHL_NodeNumberOfPoints(nodelist[i])

\* C2 (the case the claim singles out): a successful setHL_NodeArrayValue followed
\* by a successful setHL_NodeScalarValue on the same node leaves scalar dimensions
\* and a buffer of exactly one element (dSize bytes = dSize * number of points).
C2_ArrayThenScalar ==
  [][ ( /\ last.op = "setHL_NodeArrayValue" /\ last.ret = 1
        /\ last'.op = "setHL_NodeScalarValue" /\ last'.ret = 1
        /\ last'.idx = last.idx )
      => LET n == nodelist'[last'.idx]
         IN /\ n.ndims = 0
            /\ DataLen(n) = n.dSize
            /\ DataLen(n) = n.dSize * getHL_NodeNumberOfPoints(n) ]_vars

\* C3: a successful setHL_NodeScalarValue / setHL_NodeArrayValue keeps the mark
\* NMARK_CREATED and turns every other mark into NMARK_CHANGED; no value-setting
\* call, successful or not, takes a node to NMARK_CREATED or NMARK_ORIGINAL.
C3_MarkAfterSetValue ==
  [][ last'.op \in SetValueOps =>
        LET before == nodelist[last'.idx].mark
            after  == nodelist'[last'.idx].mark
        IN /\ last'.ret = 1 =>
                after = IF before = "NMARK_CREATED" THEN "NMARK_CREATED"
                        ELSE "NMARK_CHANGED"
           /\ after \in {"NMARK_CREATED", "NMARK_ORIGINAL"} => after = before ]_vars

\* C3 witness: a value was set on a node whose mark was not NMARK_CREATED
C3_Witness ==
  /\ last.op \in SetValueOps
  /\ last.ret = 1
  /\ nodelist[last.idx].mark = "NMARK_CHANGED"

----------------------------------------------------------------------------
(* Properties of writeHL_NodeList and updateHL_NodeList (SpecWrite,        *)
(* SpecUpdate)                                                             *)

ParentName(node) == SubSeq(node.name, 1, Len(node.name) - 1)

\* the nodes whose non-empty parent path is the path of no node of the list
Orphans(nodes) ==
  { i \in 1..Len(nodes) :
      Len(nodes[i].name) > 1 /\ ParentName(nodes[i]) \notin NamesOf(nodes) }

\* C4: when some node of the list has a non-empty parent path that is the path
\* of no node of the list, writeHL_NodeList returns 0, the node is handed to
\* no write helper, and no object of the node's path is in the file.
C4_MissingParentFails ==
  (wr.op = "writeHL_NodeList" /\ Orphans(nodelist) # {}) =>
    /\ wr.ret = 0
    /\ \A i \in Orphans(nodelist) :
         /\ i \notin wr.dispatched
         /\ nodelist[i].name \notin PathsIn(file)

\* C4 witness: a write stopped at the node without a parent, after it had
\* created the object of an earlier node
C4_Witness ==
  /\ wr.op = "writeHL_NodeList"
  /\ wr.ret = 0
  /\ wr.failedAt > 1
  /\ wr.failedAt \in Orphans(nodelist)
  /\ 1 \in wr.done
  /\ nodelist[1].name \in wr.created
  /\ wr.failed = {}

\* the nodes that come before the group or dataset node they lie under
EarlyChildren(nodes) ==
  { i \in 1..Len(nodes) :
      \E j \in (i + 1)..Len(nodes) :
        /\ Len(nodes[i].name) > 1
        /\ nodes[j].name = ParentName(nodes[i])
        /\ nodes[j].type \in {"GROUP_ID", "DATASET_ID"} }

\* C5: when a node comes before its parent group/dataset node in the list,
\* writeHL_NodeList returns 0 and no object of the node's path is in the file.
C5_ChildBeforeParent ==
  (wr.op = "writeHL_NodeList" /\ EarlyChildren(nodelist) # {}) =>
    /\ wr.ret = 0
    /\ \A i \in EarlyChildren(nodelist) : nodelist[i].name \notin PathsIn(file)

HandleIds(handles) == { <<h.id, h.kind>> : h \in handles }

C8_UpdateReleasesHandles ==
  wr.op = "updateHL_NodeList" => HandleIds(open) = HandleIds(wr.openBefore)

\* C8 witness: an update that appended a group and then an attribute and failed
\* at its third node when an engine call failed
C8_Witness ==
  /\ wr.op = "updateHL_NodeList"
  /\ wr.ret = 0
  /\ wr.failedAt = 3
  /\ wr.failed # {}
  /\ \E i \in wr.done : nodelist[i].type = "GROUP_ID"
  /\ \E i \in wr.done : nodelist[i].type = "ATTRIBUTE_ID"

\* the lists read from a file (their nodes Original, one at least) to which
\* one Created dataset node with a value and an existing parent group was
\* added: the index of that node, or 0
AddedDataset(nodes, marks, base) ==
  IF /\ Cardinality({ i \in 1..Len(nodes) : marks[i] = "NMARK_CREATED" }) = 1
     /\ \E i \in 1..Len(nodes) : marks[i] = "NMARK_ORIGINAL"
     /\ \A i \in 1..Len(nodes) : marks[i] \in {"NMARK_CREATED", "NMARK_ORIGINAL"}
     /\ \A i \in 1..Len(nodes) :
          marks[i] = "NMARK_ORIGINAL" => nodes[i].name \in PathsIn(base)
     /\ \E i \in 1..Len(nodes) :
          /\ marks[i] = "NMARK_CREATED"
          /\ nodes[i].type = "DATASET_ID"
          /\ nodes[i].data # NULL
          /\ IsKind(base, ParentName(nodes[i]), "group")
  THEN CHOOSE i \in 1..Len(nodes) : marks[i] = "NMARK_CREATED"
  ELSE 0

\* C9: updateHL_NodeList on a list read from a file, plus one Created dataset
\* node with a value and an existing parent, returns 1, creates the dataset,
\* marks the node Original and leaves every object of the file as it was
\* (no engine call failing on its own), whatever the compression argument.
C9_AppendOneDataset ==
  LET base == [exists |-> TRUE, objs |-> wr.kept \cup wr.lost]
      i    == AddedDataset(nodelist, wr.marks, base)
  IN (wr.op = "updateHL_NodeList" /\ wr.failed = {} /\ i # 0) =>
       /\ wr.ret = 1
       /\ nodelist[i].name \in wr.created
       /\ nodelist[i].mark = "NMARK_ORIGINAL"
       /\ wr.lost = {}

\* C10: after updateHL_NodeList returns 1, every node that was Created when
\* the call started is Original.
C10_NoCreatedLeft ==
  (wr.op = "updateHL_NodeList" /\ wr.ret = 1) =>
    \A i \in 1..Len(nodelist) :
      wr.marks[i] = "NMARK_CREATED" => nodelist[i].mark = "NMARK_ORIGINAL"

\* C11: updateHL_NodeList hands to its helpers only nodes that are Created;
\* a node that is Original, Selected or Changed is handed to no helper and is
\* left as it was (mark, data, handle and all), no object of the file is
\* changed, and every object the call adds is at the path of a Created node.
C11_OnlyCreatedNodesProcessed ==
  [][ last'.op = "updateHL_NodeList" =>
        /\ \A i \in 1..Len(nodelist) :
             nodelist[i].mark # "NMARK_CREATED" =>
               /\ i \notin wr'.dispatched
               /\ nodelist'[i] = nodelist[i]
        /\ \A i \in wr'.dispatched : nodelist[i].mark = "NMARK_CREATED"
        /\ wr'.lost = {}
        /\ wr'.created \subseteq
             { nodelist[i].name :
                 i \in { j \in 1..Len(nodelist) : nodelist[j].mark = "NMARK_CREATED" } } ]_vars

\* C11 witness: a successful update of a list holding a Changed attribute with
\* a value, whose object is in the file as it was, and a Created node that the
\* call appended
C11_Witness ==
  /\ wr.op = "updateHL_NodeList"
  /\ wr.ret = 1
  /\ wr.created # {}
  /\ \E i \in 1..Len(nodelist) :
       /\ wr.marks[i] = "NMARK_CHANGED"
       /\ nodelist[i].mark = "NMARK_CHANGED"
       /\ nodelist[i].type = "ATTRIBUTE_ID"
       /\ nodelist[i].data # NULL
       /\ ObjectOf(nodelist[i].name, "A") \in wr.kept
  /\ \E i \in 1..Len(nodelist) : wr.marks[i] = "NMARK_SELECTED"

\* the nodes of undefined type that the loop of the call came to
UndefinedVisited ==
  { i \in 1..Len(nodelist) :
      /\ nodelist[i].type = "UNDEFINED_ID"
      /\ wr.op = "updateHL_NodeList" => wr.marks[i] = "NMARK_CREATED"
      /\ wr.ret = 1 \/ wr.failedAt > i }

\* C12: when the loop of writeHL_NodeList or updateHL_NodeList comes to a node
\* of undefined type, the call returns 0 and hands no later node to a helper.
C12_UndefinedTypeFails ==
  wr.op \in {"writeHL_NodeList", "updateHL_NodeList"} =>
    \A i \in UndefinedVisited :
      /\ wr.ret = 0
      /\ \A j \in wr.dispatched : j < i

\* C13: a write or update in which the engine, asked after the commit of a
\* TYPE node, does not report the node's type as committed returns 0.
C13_UncommittedTypeFails ==
  (wr.op \in {"writeHL_NodeList", "updateHL_NodeList"} /\ wr.notCommitted # {}) =>
    wr.ret = 0

\* the DATASET nodes with a payload whose dataset the call created in the file
\* without the payload reaching it
UnwrittenDatasets ==
  { i \in wr.dispatched :
      /\ nodelist[i].type = "DATASET_ID"
      /\ nodelist[i].data # NULL
      /\ \E o \in file.objs :
           o.path = nodelist[i].name /\ o.kind = "dataset" /\ ~o.written }

\* C14: a write or update of a list with a DATASET node whose payload write
\* failed after the dataset was created returns 0.
C14_FailedPayloadFails ==
  (wr.op \in {"writeHL_NodeList", "updateHL_NodeList"} /\ UnwrittenDatasets # {}) =>
    wr.ret = 0

\* the filter a dataset gets from a compression object naming one
FilterOf(compression) ==
  IF compression = NULL THEN CT_NONE ELSE Deref(compression).type

ValueNeverSet(node) == node.format = "HLHDF_UNDEFINED" /\ node.typeId < 0

\* C36: an Attribute or Dataset node without format and type that
\* writeHL_NodeList or updateHL_NodeList hands to a helper is the node the
\* call fails at: the call returns 0 and the file has no object of the
\* node's path.
C36_UnsetValueFails ==
  [][ last'.op \in {"writeHL_NodeList", "updateHL_NodeList"} =>
        \A i \in wr'.dispatched :
          ( /\ nodelist[i].type \in {"ATTRIBUTE_ID", "DATASET_ID"}
            /\ ValueNeverSet(nodelist[i]) ) =>
              /\ wr'.failedAt = i
              /\ wr'.ret = 0
              /\ nodelist[i].name \notin PathsIn(file') ]_vars

\* a write made a group and failed at a dataset under it that has no value,
\* with no engine call failing on its own
C36_Witness ==
  /\ wr.op = "writeHL_NodeList"
  /\ wr.ret = 0
  /\ wr.failed = {}
  /\ wr.failedAt = 2
  /\ wr.done = {1}
  /\ nodelist[2].type = "DATASET_ID"
  /\ ValueNeverSet(nodelist[2])
  /\ nodelist[1].name \in PathsIn(file)

\* C39: getHL_NodeDimension(node, index) returns dims[index] when the node
\* has a dimensions array and 0 <= index < ndims, and 0 for a negative index,
\* an index >= ndims and a node without a dimensions array; it reads no
\* element outside the array.
C39_DimensionWithinArray ==
  out.op = "getHL_NodeDimension" =>
    LET node == nodelist[out.idx]
    IN /\ out.value = IF node.dims # NULL /\ 0 <= out.index /\ out.index < node.ndims
                      THEN Deref(node.dims)[out.index + 1]
                      ELSE 0
       /\ out.read # NULL =>
             /\ node.dims # NULL
             /\ Deref(out.read) \in 0..(Len(Deref(node.dims)) - 1)

C39_Witness ==
  /\ out.op = "getHL_NodeDimension"
  /\ out.index = 1
  /\ out.value = MaxExtent
  /\ out.read = Ptr(1)

----------------------------------------------------------------------------
(* Copies of nodes of every kind, mark and compression (SpecClone) *)

\* setHL_NodeCompression by the caller, on the node before it is copied
SetCompression ==
  \E compression \in {Zlib6, Szlib} :
    /\ Len(nodelist) = 1
    /\ nodelist' = [nodelist EXCEPT ![1] = setHL_NodeCompression(@, compression)]
    /\ last' = [op |-> "setHL_NodeCompression", ret |-> 1, idx |-> 1,
                name |-> nodelist[1].name]
    /\ UNCHANGED <<nextId, file, open, wr, alias, readlist, out, call>>

InitClone ==
  /\ \E kind \in KindsAt(<<"g", "c">>) : nodelist = << Made(1, <<"g", "c">>, kind) >>
  /\ nextId = 1
  /\ file = NoFile
  /\ open = TypeHandles(nodelist)
  /\ last = NoCall
  /\ wr = NoReport
  /\ alias = {}
  /\ readlist = <<>>
  /\ out = NoValue
  /\ call = NotCalled

NextClone ==
  \/ CopyNode
  \/ SetMark
  \/ SetCompression

SpecClone == InitClone /\ [][NextClone]_vars

\* C38: the node copyHL_Node returns has the original's name, type, format,
\* element size, data type, dimensions and mark, and, when the original is a
\* Dataset node with compression settings, the original's compression.
C38_CopyKeepsFields ==
  [][ last'.op = "copyHL_Node" =>
        LET node == nodelist[1]
            retv == nodelist'[2]
        IN /\ retv.name = node.name
           /\ retv.type = node.type
           /\ retv.format = node.format
           /\ retv.dSize = node.dSize
           /\ retv.dataType = node.dataType
           /\ retv.ndims = node.ndims
           /\ retv.dims = node.dims
           /\ retv.mark = node.mark
           /\ (node.type = "DATASET_ID" /\ node.compression # NULL) =>
                 retv.compression = node.compression ]_vars

\* the target of a Reference node names no object of the file
Unresolvable(node, f) == ~ExistsObj(f, StringAsPath(node.data))

\* C37: when the step writing a Reference node fails because the target path
\* names no object of the file, no engine call having failed otherwise, the
\* file holds no attribute of the reference's name afterwards.
C37_NoAttributeForFailedReference ==
  [][ ( /\ last'.op = "writeHL_NodeList"
        /\ wr'.failed = {}
        /\ wr'.failedAt \in wr'.dispatched
        /\ nodelist[wr'.failedAt].type = "REFERENCE_ID"
        /\ Unresolvable(nodelist[wr'.failedAt], file') ) =>
          nodelist[wr'.failedAt].name \notin PathsIn(file') ]_vars

\* C33: writeHL_NodeList and updateHL_NodeList leave the compression object
\* they are given and the compression object of every node as they were.
C33_CompressionUnchanged ==
  [][ last'.op \in {"writeHL_NodeList", "updateHL_NodeList"} =>
        /\ wr'.compression = wr'.given
        /\ \A i \in 1..Len(nodelist) :
             nodelist'[i].compression = nodelist[i].compression ]_vars

\* whether a compression object asks for a filter: szip, or zlib with a
\* level from 1 to 9
AsksForFilter(compression) ==
  /\ compression # NULL
  /\ \/ Deref(compression).type = CT_SZLIB
     \/ /\ Deref(compression).type = CT_ZLIB
        /\ Deref(compression).level >= 1
        /\ Deref(compression).level <= 9

\* C34: a dataset that writeHL_NodeList creates carries the filter its
\* compression names (the call's when that is not NULL, the node's own
\* otherwise) when that asks for one, and no filter when the compression is
\* NULL or of type none.
C34_FilterOnlyWhenAsked ==
  [][ last'.op = "writeHL_NodeList" =>
        \A i \in wr'.dispatched :
          LET chosen == IF wr'.given # NULL THEN wr'.given
                        ELSE nodelist[i].compression
          IN (nodelist[i].type = "DATASET_ID" /\ nodelist[i].name \in wr'.created) =>
               \A o \in file'.objs :
                 o.path = nodelist[i].name =>
                   o.filter = IF AsksForFilter(chosen) THEN FilterOf(chosen)
                              ELSE CT_NONE ]_vars

----------------------------------------------------------------------------
(* Properties of one node, continued (SpecNode) *)

SetterOps == {"setHL_NodeScalarValue", "setHL_NodeArrayValue", "setHL_NodeDimensions"}

\* C17: the node copyHL_Node returns has hdfId -1 whatever the original's,
\* and a later setHL_NodeScalarValue, setHL_NodeArrayValue or
\* setHL_NodeDimensions on the copy or on the original leaves the other
\* node's data, raw data, dimensions, format and mark as they were.
C17_CopyIsUnboundAndIndependent ==
  [][ /\ last'.op = "copyHL_Node" => nodelist'[last'.idx].hdfId = -1
      /\ last'.op \in SetterOps =>
           \A j \in 1..Len(nodelist) :
             j # last'.idx =>
               /\ nodelist'[j].data = nodelist[j].data
               /\ nodelist'[j].rawdata = nodelist[j].rawdata
               /\ nodelist'[j].dims = nodelist[j].dims
               /\ nodelist'[j].ndims = nodelist[j].ndims
               /\ nodelist'[j].format = nodelist[j].format
               /\ nodelist'[j].mark = nodelist[j].mark ]_vars

\* a value was set on the copy of a bound node with data and raw data
C17_Witness ==
  /\ Len(nodelist) = 2
  /\ last.op \in SetterOps /\ last.ret = 1 /\ last.idx = 2
  /\ nodelist[1].hdfId >= 0
  /\ nodelist[2].hdfId = -1
  /\ nodelist[1].rawdata # NULL /\ nodelist[2].rawdata = nodelist[1].rawdata
  /\ nodelist[1].data # NULL /\ nodelist[2].data # nodelist[1].data

\* the arguments the value setters turn down: a format that is not
\* recognised, the format "array", a compound format without a type handle
FailsValidation(fmt, typid) ==
  \/ HL_getFormatSpecifier(fmt) \in {"HLHDF_UNDEFINED", "HLHDF_ARRAY"}
  \/ HL_getFormatSpecifier(fmt) = "HLHDF_COMPOUND" /\ typid < 0

SameValue(n, m) ==
  /\ n.data = m.data /\ n.dSize = m.dSize /\ n.format = m.format
  /\ n.typeId = m.typeId /\ n.dims = m.dims /\ n.ndims = m.ndims
  /\ n.dataType = m.dataType /\ n.mark = m.mark

\* C18: setHL_NodeScalarValue and setHL_NodeArrayValue return 0 for arguments
\* that fail validation, and a call of either that returns 0 leaves the
\* node's data, dSize, format, typeId, dims, ndims, dataType and mark as they
\* were.
C18_FailedSetValueChangesNothing ==
  /\ [](\A i \in 1..Len(nodelist), sz \in Sizes, fmt \in FormatTokens, typid \in TypeIds :
          FailsValidation(fmt, typid) =>
            /\ setHL_NodeScalarValue(nodelist[i], sz, Buffer(sz, 1), fmt, typid).status = 0
            /\ \A dims \in DimVectors :
                 setHL_NodeArrayValue(nodelist[i], sz, Len(dims), Ptr(dims),
                                      Buffer(Product(dims) * sz, 1), fmt, typid).status = 0)
  /\ [][ (last'.op \in SetValueOps /\ last'.ret = 0) =>
           SameValue(nodelist'[last'.idx], nodelist[last'.idx]) ]_vars

\* a value setter turned its arguments down on a node holding an array
C18_Witness ==
  /\ last.op \in SetValueOps
  /\ last.ret = 0
  /\ nodelist[last.idx].data # NULL
  /\ nodelist[last.idx].ndims > 0
  /\ nodelist[last.idx].mark = "NMARK_ORIGINAL"

\* the extents of a node of one or two dimensions, multiplied
Extents(node) ==
  IF node.ndims = 1 THEN Deref(node.dims)[1]
  ELSE Deref(node.dims)[1] * Deref(node.dims)[2]

\* C19: getHL_NodeNumberOfPoints is 1 for a node with ndims = 0, the product
\* of its ndims extents for a node with ndims > 0 and a dimensions array (100
\* for the extents (10, 10)), and 0 for a node with ndims > 0 and no
\* dimensions array.
C19_NumberOfPoints ==
  \A i \in 1..Len(nodelist) :
    LET node == nodelist[i]
        tens == setHL_NodeDimensions(node, 2, Ptr(<<10, 10>>)).node
    IN /\ node.ndims = 0 => getHL_NodeNumberOfPoints(node) = 1
       /\ (node.ndims > 0 /\ node.dims # NULL) =>
            /\ node.ndims \in 1..2
            /\ Len(Deref(node.dims)) = node.ndims
            /\ getHL_NodeNumberOfPoints(node) = Extents(node)
       /\ (node.ndims > 0 /\ node.dims = NULL) => getHL_NodeNumberOfPoints(node) = 0
       /\ getHL_NodeNumberOfPoints(tens) = 100

\* a node of two dimensions after setHL_NodeDimensions took its array away
C19_Witness ==
  /\ last.op = "setHL_NodeDimensions"
  /\ nodelist[last.idx].ndims = 2
  /\ nodelist[last.idx].dims = NULL
  /\ nodelist[last.idx].data # NULL
  /\ getHL_NodeNumberOfPoints(nodelist[last.idx]) = 0

\* C16: no public operation on a node other than setHL_NodeType changes what
\* getHL_NodeType returns, and setHL_NodeType changes it for the node it is
\* called on only.
C16_TypeChangedOnlyBySetType ==
  [][ \A i \in 1..Len(nodelist) :
        (last'.op # "setHL_NodeType" \/ last'.idx # i) =>
          getHL_NodeType(nodelist'[i]) = getHL_NodeType(nodelist[i]) ]_vars

\* a value was set and a mark given on a node that has its constructor's type
C16_Witness ==
  /\ last.op = "setHL_NodeMark"
  /\ nodelist[last.idx].data # NULL
  /\ nodelist[last.idx].ndims > 0
  /\ getHL_NodeType(nodelist[last.idx]) \in NodeTypes

\* C16 as stated: no later public operation changes a node's type.
C16_TypeNeverChanges ==
  [][ \A i \in 1..Len(nodelist) :
        getHL_NodeType(nodelist'[i]) = getHL_NodeType(nodelist[i]) ]_vars

----------------------------------------------------------------------------
(* Properties of the round trip (SpecRound) *)

ReadBack(name) == CHOOSE n \in { readlist[k] : k \in 1..Len(readlist) } : n.name = name

\* C20: after a writeHL_NodeList that returned 1 with no engine call failing,
\* readHL_NodeList, selectAllNodes and a successful fetchMarkedNodes give a
\* list with the paths of the list written, each node with the format, the
\* dimensions and the bytes of data of the node written at its path.
C20_RoundTrip ==
  ( /\ wr.op = "writeHL_NodeList" /\ wr.ret = 1 /\ wr.failed = {}
    /\ last.op = "fetchMarkedNodes" /\ last.ret = 1
    /\ \A k \in 1..Len(readlist) : readlist[k].mark = "NMARK_SELECTED" ) =>
      /\ NamesOf(readlist) = NamesOf(nodelist)
      /\ \A i \in 1..Len(nodelist) :
           LET n == nodelist[i]
               m == ReadBack(n.name)
           IN /\ m.format = n.format
              /\ m.ndims = n.ndims
              /\ m.dims = n.dims
              /\ m.data = n.data

\* the list was written, read back and fetched, the dataset compressed
C20_Witness ==
  /\ wr.op = "writeHL_NodeList" /\ wr.ret = 1 /\ wr.failed = {}
  /\ last.op = "fetchMarkedNodes" /\ last.ret = 1
  /\ Len(readlist) = 3
  /\ \A k \in 1..Len(readlist) : readlist[k].mark = "NMARK_SELECTED"
  /\ \E o \in file.objs : o.kind = "dataset" /\ o.filter = CT_ZLIB /\ Len(o.dims) = 2
  /\ \E k \in 1..Len(readlist) :
       readlist[k].type = "DATASET_ID" /\ readlist[k].data # NULL

\* C21: on a list read from a file, a node that was never selected has no
\* data whatever fetchMarkedNodes calls were made (so a fetch with nothing
\* selected leaves every node without data), and a successful
\* fetchMarkedNodes that follows a successful one leaves every node with the
\* data bytes it had after the first.
C21_FetchIdempotent ==
  /\ [](\A k \in 1..Len(readlist) :
          readlist[k].mark # "NMARK_SELECTED" => readlist[k].data = NULL)
  /\ [][(/\ last.op = "fetchMarkedNodes" /\ last.ret = 1
         /\ last'.op = "fetchMarkedNodes" /\ last'.ret = 1) =>
          /\ Len(readlist') = Len(readlist)
          /\ \A k \in 1..Len(readlist) :
               /\ readlist'[k].data = readlist[k].data
               /\ readlist'[k].dims = readlist[k].dims]_vars

\* a second fetch in a row returned with one node fetched and another node
\* that holds a payload in the file left unselected
C21_Witness ==
  /\ last.op = "fetchMarkedNodes" /\ last.ret = 1 /\ last.idx = 2
  /\ \E k \in 1..Len(readlist) :
       readlist[k].mark = "NMARK_SELECTED" /\ readlist[k].data # NULL
  /\ \E k \in 1..Len(readlist) :
       /\ readlist[k].mark = "NMARK_ORIGINAL"
       /\ readlist[k].type \in {"ATTRIBUTE_ID", "DATASET_ID"}
       /\ readlist[k].data = NULL

----------------------------------------------------------------------------
(* Properties of the constructors and accessors (SpecNew, SpecAccess) *)

\* the TYPE nodes of the list whose description carries the identity
Committed(objno) ==
  { i \in 1..Len(nodelist) :
      /\ nodelist[i].type = "TYPE_ID"
      /\ nodelist[i].compoundDescription # NULL
      /\ Deref(nodelist[i].compoundDescription).objno = objno }

\* C22: findHL_CompoundTypeDescription(list, id0, id1) returns NULL when no
\* TYPE node of the list has a description with the object identity
\* (id0, id1), and otherwise the description a TYPE node with that identity
\* holds, at the address the node holds it; the call leaves the list as it was.
C22_FindCompoundTypeDescription ==
  /\ [](out.op = "findHL_CompoundTypeDescription" =>
          /\ Committed(out.objno) = {} => out.descr = NULL
          /\ Committed(out.objno) # {} =>
                \E i \in Committed(out.objno) :
                  out.descr = nodelist[i].compoundDescription)
  /\ [][last'.op = "findHL_CompoundTypeDescription" => nodelist' = nodelist]_vars

\* a description was found in a list that also holds a TYPE node of another
\* identity
C22_Witness ==
  /\ out.op = "findHL_CompoundTypeDescription"
  /\ out.descr # NULL
  /\ Len(nodelist) >= 2
  /\ \E i \in 1..Len(nodelist) :
       /\ nodelist[i].type = "TYPE_ID"
       /\ nodelist[i].compoundDescription # NULL
       /\ Deref(nodelist[i].compoundDescription).objno # out.objno

\* C23: a typed constructor called with a name returns a node of mark
\* Created, of the constructor's type, with no dimensions, no data, format
\* undefined and hdfId -1; called with NULL it returns NULL.
C23_TypedConstructors ==
  out.op = "newHL_Node" =>
    IF out.name = NULL THEN out.node = NULL
    ELSE /\ out.node # NULL
         /\ Deref(out.node).name = Deref(out.name)
         /\ Deref(out.node).mark = "NMARK_CREATED"
         /\ Deref(out.node).type = out.type
         /\ Deref(out.node).ndims = 0
         /\ Deref(out.node).dims = NULL
         /\ Deref(out.node).data = NULL
         /\ Deref(out.node).format = "HLHDF_UNDEFINED"
         /\ Deref(out.node).hdfId = -1

\* a constructor returned a node, which addHL_Node appended to a list that
\* held a node of another type
C23_Witness ==
  /\ out.op = "newHL_Node" /\ out.node # NULL /\ out.type = "REFERENCE_ID"
  /\ Len(nodelist) = 2
  /\ nodelist[1].type = "DATASET_ID"
  /\ nodelist[2] = Deref(out.node)

\* C24: markHL_NodeListNodes(list, m) leaves a list of the same nodes in the
\* same order, each with mark m and otherwise as it was.
C24_MarkAllNodes ==
  [][last'.op = "markHL_NodeListNodes" =>
       /\ Len(nodelist') = Len(nodelist)
       /\ \A k \in 1..Len(nodelist) :
            /\ nodelist'[k].mark = out'.mark
            /\ nodelist'[k] = [nodelist[k] EXCEPT !.mark = out'.mark]]_vars

\* a list of two or more nodes with data was marked with a mark none had
C24_Witness ==
  /\ last.op = "markHL_NodeListNodes"
  /\ out.mark = "NMARK_SELECTED"
  /\ Len(nodelist) >= 2
  /\ \A k \in 1..Len(nodelist) : nodelist[k].mark = "NMARK_SELECTED"
  /\ \E k \in 1..Len(nodelist) : nodelist[k].data # NULL

\* C25: getHL_NodeDimensions reports ndims = 0 and no array for a node with
\* ndims = 0 or without a dimensions array, and otherwise the node's ndims
\* and a newly allocated array of its extents; a write of the caller to that
\* array leaves what getHL_NodeDimensions reports of every node as it was.
C25_DimensionsAreCopied ==
  /\ [](last.op = "getHL_NodeDimensions" =>
          LET node == nodelist[out.idx]
          IN IF node.ndims = 0 \/ node.dims = NULL
             THEN out.ndims = 0 /\ out.dims = NULL
             ELSE /\ out.ndims = node.ndims
                  /\ out.dims = node.dims
                  /\ out.at = "fresh")
  /\ [][last'.op = "write to dims" =>
          /\ Len(nodelist') = Len(nodelist)
          /\ \A i \in 1..Len(nodelist) :
               /\ getHL_NodeDimensions(nodelist'[i]).ndims
                    = getHL_NodeDimensions(nodelist[i]).ndims
               /\ getHL_NodeDimensions(nodelist'[i]).dims
                    = getHL_NodeDimensions(nodelist[i]).dims]_vars

\* the caller changed an extent of the array it was given for a node of two
\* dimensions, and the node has the extents it had
C25_Witness ==
  /\ last.op = "write to dims"
  /\ out.ndims = 2
  /\ out.dims # nodelist[out.idx].dims
  /\ nodelist[out.idx].dims = Ptr(<<MaxExtent, MaxExtent>>)

----------------------------------------------------------------------------
(* Properties of one call, statement by statement (SpecLoop, SpecLoopFair) *)

\* no value occurs twice in the sequence
NoRepeat(seq) == \A k, m \in 1..Len(seq) : k < m => seq[k] # seq[m]

\* the values of the sequence grow
Increasing(seq) == \A k, m \in 1..Len(seq) : k < m => seq[k] < seq[m]

\* C28: a call of writeHL_NodeList or updateHL_NodeList ends: no node is
\* handed to a helper twice in a call, the loop body runs for the indices
\* in increasing order, a node that failed is the last the body ran for,
\* and every call that was made returns, with 1 (success) or 0 (failure).
C28_CallsTerminate ==
  /\ [](call.pc # "none" =>
          /\ NoRepeat(call.dispatches)
          /\ Increasing(call.visited)
          /\ call.st.failedAt # 0 =>
               /\ call.pc \in {"return", "returned"}
               /\ call.visited # <<>> => call.st.failedAt = call.visited[Len(call.visited)])
  /\ (call.pc \notin {"none", "returned"})
       ~> (call.pc = "returned" /\ last.op = call.op /\ last.ret \in {0, 1})

\* an update of a list of three nodes returned failure after its body ran
\* for the first two of them, both handed to a helper
C28_Witness ==
  /\ call.pc = "returned"
  /\ call.op = "updateHL_NodeList"
  /\ last.ret = 0
  /\ Len(nodelist) = 3
  /\ call.visited = <<1, 2>>
  /\ call.dispatches = <<1, 2>>

\* C35: when the loop of updateHL_NodeList comes to a Created node whose
\* parent path is not empty and is the name of no node of the list, it
\* leaves the loop at that node without an engine call, the list and the
\* file as they were, also when the file has a group of that path; and the
\* call returns 0.
C35_ParentMustBeInList ==
  /\ []((call.pc = "returned" /\ call.st.failedAt # 0) => last.ret = 0)
  /\ [][ ( /\ call.pc = "body"
            /\ call.op = "updateHL_NodeList"
            /\ call.st.nodes[call.i].mark = "NMARK_CREATED"
            /\ call.i \in Orphans(call.st.nodes) ) =>
              /\ call'.pc = "return"
              /\ call'.st.failedAt = call.i
              /\ call'.st.es = call.st.es
              /\ call'.st.nodes = call.st.nodes
              /\ call'.dispatches = call.dispatches ]_vars

\* an update appended a node and then failed at an attribute /x/c for whose
\* parent the list has no node, though the file has the group /x
C35_Witness ==
  /\ call.pc = "returned"
  /\ call.op = "updateHL_NodeList"
  /\ last.ret = 0
  /\ call.st.failedAt \in Orphans(nodelist)
  /\ call.st.failedAt \notin call.st.dispatched
  /\ call.st.done # {}
  /\ IsKind(file, ParentName(nodelist[call.st.failedAt]), "group")
  /\ nodelist[call.st.failedAt].name \notin PathsIn(file)

\* the list with every mark as a constructor sets it
AllCreated(nodes) == [k \in 1..Len(nodes) |-> setHL_NodeMark(nodes[k], "NMARK_CREATED")]

\* C32: writeHL_NodeList neither reads nor changes a mark: when it returns,
\* with 1 or with 0, every node has the mark it had; a call that returns 1
\* handed every node to a helper, whatever its mark; and the value returned,
\* the file and the open handles are those the call leaves for the same list
\* with all marks Created.
C32_WriteIgnoresMarks ==
  [][ (call.pc = "return" /\ call.op = "writeHL_NodeList") =>
        LET r == writeHL_NodeList(AllCreated(nodelist), Engine(call.st.es.fails), NULL)
        IN /\ Len(nodelist') = Len(nodelist)
           /\ \A k \in 1..Len(nodelist) : nodelist'[k].mark = nodelist[k].mark
           /\ last'.ret = 1 => call.dispatches = [k \in 1..Len(nodelist) |-> k]
           /\ last'.ret = r.ret
           /\ file' = r.es.file
           /\ open' = r.es.open
           /\ AllCreated(nodelist') = r.nodes ]_vars

\* a list of an Original group and two Created nodes was written in full
C32_Witness ==
  /\ call.pc = "returned"
  /\ call.op = "writeHL_NodeList"
  /\ last.ret = 1
  /\ Len(nodelist) = 3
  /\ nodelist[1].mark = "NMARK_ORIGINAL"
  /\ nodelist[2].mark = "NMARK_CREATED"
  /\ {nodelist[1].name, nodelist[2].name} \subseteq PathsIn(file)

----------------------------------------------------------------------------
(* Properties of calls one after the other (SpecRepeat) *)

\* C26: whatever writeHL_NodeList and updateHL_NodeList calls were made on a
\* list, with whatever outcome, and whatever HLNodePrivate_setHdfID was given
\* for its Reference nodes, every Attribute node and every Reference node of
\* the list has no storage handle (hdfId = -1).
C26_AttributeAndReferenceUnbound ==
  \A k \in 1..Len(nodelist) :
    nodelist[k].type \in {"ATTRIBUTE_ID", "REFERENCE_ID"} => nodelist[k].hdfId = -1

\* a list of a group and a reference under it was written, which bound the
\* group and stored the reference, an update was tried on it, and
\* HLNodePrivate_setHdfID was then called on the Reference node
C26_Witness ==
  /\ last.op = "HLNodePrivate_setHdfID"
  /\ wr.op = "updateHL_NodeList"
  /\ nodelist[last.idx].type = "REFERENCE_ID"
  /\ \E o \in file.objs : o.path = nodelist[last.idx].name /\ o.written
  /\ \E k \in 1..Len(nodelist) :
       nodelist[k].type = "GROUP_ID" /\ nodelist[k].hdfId >= 0

\* the open handle a Group or Dataset node holds, if it holds one
HandleOf(node, handles) ==
  { h \in handles :
      /\ h.id = node.hdfId
      /\ h.kind = IF node.type = "GROUP_ID" THEN "group" ELSE "dataset"
      /\ node.type \in {"GROUP_ID", "DATASET_ID"} }

\* C27: writeHL_NodeList closes the handle a Group or Dataset node holds
\* before it creates the node's object anew: a handle such a node held when
\* the call began is closed when the call returns, unless the node failed
\* and still holds it; and after any calls every open group or dataset
\* handle is the handle of a Group or Dataset node of the list.
C27_OldHandleClosed ==
  /\ [](\A h \in open :
          h.kind \in {"group", "dataset"} =>
            \E k \in 1..Len(nodelist) : h \in HandleOf(nodelist[k], open))
  /\ [][last'.op = "writeHL_NodeList" =>
          \A i \in wr'.dispatched :
            \A h \in HandleOf(nodelist[i], open) :
              \/ h \notin open'
              \/ i \notin wr'.done /\ h \in HandleOf(nodelist'[i], open')]_vars

\* a list was written, named another file and written again: its group holds
\* a handle of the second file, no handle of the first file is open, and the
\* first file still has its objects
C27_Witness ==
  /\ last.op = "writeHL_NodeList"
  /\ wr.ret = 1
  /\ \E o \in file.objs : Elsewhere(o.path)
  /\ \A h \in open : ~Elsewhere(h.path)
  /\ \E k \in 1..Len(nodelist) :
       /\ nodelist[k].type = "GROUP_ID"
       /\ HandleOf(nodelist[k], open) # {}
  /\ \E k \in 1..Len(nodelist) :
       /\ nodelist[k].type = "DATASET_ID"
       /\ HandleOf(nodelist[k], open) # {}

----------------------------------------------------------------------------
(* Properties of updateHL_NodeList, continued (SpecUpdate) *)

\* what the parent path of a node is in the file: the root is a group
ParentKind(node, f) ==
  IF ParentName(node) = <<>> THEN "group"
  ELSE IF IsKind(f, ParentName(node), "group") THEN "group"
  ELSE IF IsKind(f, ParentName(node), "dataset") THEN "dataset"
  ELSE "none"

\* as what the parent of a node of the type may be opened
ParentKinds(type) ==
  CASE type = "ATTRIBUTE_ID" -> {"group", "dataset"}
    [] type \in {"GROUP_ID", "DATASET_ID"} -> {"group"}
    [] OTHER -> {"group", "dataset", "none"}

\* C29: in updateHL_NodeList an Attribute node with a value whose parent
\* path is a group or a dataset of the file is appended and marked Original
\* (no engine call failing on its own); a Group or Dataset node is appended
\* only under a parent that is a group of the file; and a Created Attribute,
\* Group or Dataset node the loop comes to whose parent path is neither is
\* the node the call fails at: it stays Created and the call returns 0.
C29_ParentOfAppendedNode ==
  wr.op = "updateHL_NodeList" =>
    \A i \in 1..Len(nodelist) :
      LET node == nodelist[i]
          kind == ParentKind(node, file)
      IN /\ ( /\ i \in wr.dispatched
              /\ wr.failed = {}
              /\ node.type = "ATTRIBUTE_ID"
              /\ node.data # NULL
              /\ kind \in {"group", "dataset"} ) =>
                i \in wr.done /\ node.mark = "NMARK_ORIGINAL" /\ node.name \in wr.created
         /\ (i \in wr.done /\ node.type \in {"ATTRIBUTE_ID", "GROUP_ID", "DATASET_ID"}) =>
              kind \in ParentKinds(node.type)
         /\ ( /\ i \in wr.dispatched \/ i = wr.failedAt
              /\ node.type \in {"ATTRIBUTE_ID", "GROUP_ID", "DATASET_ID"}
              /\ kind \notin ParentKinds(node.type) ) =>
                /\ wr.failedAt = i
                /\ wr.ret = 0
                /\ node.mark = "NMARK_CREATED"
                /\ node.name \notin PathsIn(file)

\* an update appended an attribute under a dataset of the file and then
\* failed at an attribute whose parent path is not in the file
C29_Witness ==
  /\ wr.op = "updateHL_NodeList"
  /\ wr.ret = 0
  /\ wr.failed = {}
  /\ \E i \in wr.done :
       /\ nodelist[i].type = "ATTRIBUTE_ID"
       /\ nodelist[i].mark = "NMARK_ORIGINAL"
       /\ ParentKind(nodelist[i], file) = "dataset"
  /\ wr.failedAt # 0
  /\ nodelist[wr.failedAt].type = "ATTRIBUTE_ID"
  /\ ParentKind(nodelist[wr.failedAt], file) = "none"
  /\ nodelist[wr.failedAt].mark = "NMARK_CREATED"

----------------------------------------------------------------------------
(* Properties of an update after a failed update (SpecRepeat) *)

\* C30: when updateHL_NodeList has returned 0 at node i, every Group, Dataset
\* and Attribute node it appended has mark Original, node i and every node
\* after it that was Created is Created, and an update called again hands to
\* its helpers only nodes that the failed call did not store in the file.
C30_RepeatedUpdate ==
  [][ ( /\ last.op = "updateHL_NodeList"
        /\ last.ret = 0
        /\ wr.failedAt # 0
        /\ last'.op = "updateHL_NodeList" ) =>
          /\ \A j \in wr.done :
               nodelist[j].type \in {"GROUP_ID", "DATASET_ID", "ATTRIBUTE_ID"} =>
                 nodelist[j].mark = "NMARK_ORIGINAL"
          /\ \A j \in wr.failedAt..Len(nodelist) :
               wr.marks[j] = "NMARK_CREATED" => nodelist[j].mark = "NMARK_CREATED"
          /\ \A j \in wr'.dispatched : j \notin wr.done ]_vars

\* C31: when updateHL_NodeList has returned 1 and is called again on the
\* list as it is, with no engine call failing on its own, it returns 1, hands
\* no node to a helper and leaves the file and the open handles as they were.
C31_UpdateTwice ==
  [][ ( /\ last.op = "updateHL_NodeList"
        /\ last.ret = 1
        /\ last'.op = "updateHL_NodeList"
        /\ wr'.failed = {} ) =>
          /\ wr'.ret = 1
          /\ wr'.dispatched = {}
          /\ file' = file
          /\ open' = open ]_vars

====
